---- MODULE Spec2Model ----
(***************************************************************************)
(* A model of rexeb's dependency resolution engine (src/src/resolver):      *)
(* the Mapping Store (PackageDatabase), the heuristic part of the Fuzzy     *)
(* Matcher, the Remote Repository Client (AurClient) and the Resolution     *)
(* Orchestrator (DependencyResolver), over the Dependency / PackageMetadata *)
(* data model (src/src/models); the Rule Mapper (PackageMapper), the        *)
(* Package Builder (src/src/converter/builder.rs) and the batch conversion  *)
(* of src/src/cli/commands.rs. Each component has its own specification     *)
(* over the shared variables.                                               *)
(*                                                                          *)
(* Conventions.                                                             *)
(*  - Package names are strings; substring tests are computed on them.      *)
(*  - An f32 confidence c is the integer 100*c (1.0 is 100, 0.8 is 80).     *)
(*  - Option<T>: None is <<>>, Some(x) is <<x>>.                            *)
(*  - Result<T>: [ok |-> TRUE, value |-> v] or                              *)
(*    [ok |-> FALSE, kind |-> <RexebError variant>, msg |-> <cause>].       *)
(*  - A HashMap is a function; its iteration order, which Rust leaves       *)
(*    unspecified, is an input (a permutation of its keys).                 *)
(***************************************************************************)
EXTENDS Integers, Sequences, FiniteSets, TLC

VARIABLES
    mappings,       \* PackageDatabase.mappings: debian name -> [arch_name, confidence]
    arch_packages,  \* PackageDatabase.arch_packages: name -> [provides]
    metadata,       \* PackageMetadata.dependencies: DependencyType -> Seq(Dependency)
    pc,             \* "idle", or "resolving" while resolve's loop is running
    cur,            \* resolve's loop position (index into the work list) and run flags
    ret,            \* what the last operation did and returned
    rules,          \* PackageMapper.rules: the mapping rules in registration order
    cache,          \* PackageMapper.cache: debian name -> Option<mapped name>
    data_dir,       \* PackageConverter.data_dir: the extracted payload, path -> entry
    pkg_root,       \* build's temporary staging directory, path -> entry
    output_dir      \* the directory build writes the archive to, file name -> file

vars == <<mappings, arch_packages, metadata, pc, cur, ret, rules, cache,
          data_dir, pkg_root, output_dir>>

\* the state of the PackageMapper, which the resolver does not construct
mapper_vars == <<rules, cache>>
NoMapper == rules = <<>> /\ cache = <<>>

\* the state of the PackageConverter, which the resolver does not construct
builder_vars == <<data_dir, pkg_root, output_dir>>
NoBuilder == data_dir = <<>> /\ pkg_root = <<>> /\ output_dir = <<>>

-----------------------------------------------------------------------------
(* Bounds of the model *)

\* total number of Dependency objects (alternatives included) of an input package
MaxDeps == 2
\* number of packages in one remote answer
MaxResults == 2
\* number of top-level dependencies of a metadata handed directly to conflict handling
MaxJavaDeps == 3

-----------------------------------------------------------------------------
(* Generic helpers *)

None == <<>>
Some(x) == <<x>>

Range(s) == {s[i] : i \in DOMAIN s}

\* str::contains
Contains(s, p) ==
    \E i \in 1..(Len(s) - Len(p) + 1) : SubSeq(s, i, i + Len(p) - 1) = p

\* str::starts_with / str::ends_with
StartsWith(s, p) == Len(s) >= Len(p) /\ SubSeq(s, 1, Len(p)) = p
EndsWith(s, p) == Len(s) >= Len(p) /\ SubSeq(s, Len(s) - Len(p) + 1, Len(s)) = p

\* char::is_ascii_digit on a one-character string
IsAsciiDigit(c) == c \in {"0", "1", "2", "3", "4", "5", "6", "7", "8", "9"}

LastChar(s) == SubSeq(s, Len(s), Len(s))

\* the loop `while s.last() is a digit { s.pop() }`
RECURSIVE StripTrailingDigits(_)
StripTrailingDigits(s) ==
    IF Len(s) > 0 /\ IsAsciiDigit(LastChar(s))
    THEN StripTrailingDigits(SubSeq(s, 1, Len(s) - 1))
    ELSE s

\* chars().take_while(|c| !c.is_ascii_digit())
RECURSIVE TakeWhileNotDigit(_)
TakeWhileNotDigit(s) ==
    IF Len(s) = 0 \/ IsAsciiDigit(SubSeq(s, 1, 1))
    THEN ""
    ELSE SubSeq(s, 1, 1) \o TakeWhileNotDigit(SubSeq(s, 2, Len(s)))

\* all orders in which a HashMap with key set S can be iterated
Perms(S) ==
    {p \in [1..Cardinality(S) -> S] : \A i, j \in 1..Cardinality(S) : p[i] = p[j] => i = j}

\* sequences without repetition, of length at most n, over S
InjSeqs(S, n) ==
    UNION {{p \in [1..k -> S] : \A i, j \in 1..k : p[i] = p[j] => i = j} : k \in 0..n}

\* sequences of length at most n over S
SeqsUpTo(S, n) == UNION {[1..k -> S] : k \in 0..n}

RECURSIVE Concat(_)
Concat(ss) == IF ss = <<>> THEN <<>> ELSE Head(ss) \o Concat(Tail(ss))

RECURSIVE SumSeq(_)
SumSeq(s) == IF s = <<>> THEN 0 ELSE Head(s) + SumSeq(Tail(s))

-----------------------------------------------------------------------------
(* Data model: src/src/models/dependency.rs *)

\* enum DependencyType
DependencyTypes ==
    {"Depends", "PreDepends", "Recommends", "Suggests", "Conflicts",
     "Replaces", "Provides", "Breaks", "BuildDepends"}

\* Dependency::new
NewDependency(name) ==
    [debian_name |-> name, arch_name |-> None, version_op |-> None,
     version |-> None, alternatives |-> <<>>,
     is_virtual |-> FALSE, confidence |-> 0]

\* Dependency::with_version
WithVersion(name, op, version) ==
    [NewDependency(name) EXCEPT !.version_op = Some(op), !.version = Some(version)]

\* Dependency::set_arch_name
SetArchName(dep, name, confidence) ==
    [dep EXCEPT !.arch_name = Some(name), !.confidence = confidence]

\* Dependency::is_mapped
IsMapped(dep) == dep.arch_name # None

\* Dependency::effective_name
EffectiveName(dep) ==
    IF dep.arch_name # None THEN dep.arch_name[1] ELSE dep.debian_name

\* VersionOp::to_arch_format
ToArchFormat(op) ==
    CASE op = "Eq" -> "="
      [] op = "Ge" -> ">="
      [] op = "Le" -> "<="
      [] op = "Gt" -> ">"
      [] op = "Lt" -> "<"

\* str::find: the position of the first occurrence of sub in s, 0 for none
RECURSIVE FindFrom(_, _, _)
FindFrom(s, sub, i) ==
    IF i + Len(sub) - 1 > Len(s) THEN 0
    ELSE IF SubSeq(s, i, i + Len(sub) - 1) = sub THEN i
    ELSE FindFrom(s, sub, i + 1)

Find(s, sub) == FindFrom(s, sub, 1)

\* str::rfind: the position of the last occurrence of sub in s, 0 for none
RECURSIVE RFindFrom(_, _, _)
RFindFrom(s, sub, i) ==
    IF i < 1 THEN 0
    ELSE IF SubSeq(s, i, i + Len(sub) - 1) = sub THEN i
    ELSE RFindFrom(s, sub, i - 1)

RFind(s, sub) == RFindFrom(s, sub, Len(s) - Len(sub) + 1)

\* str::trim
RECURSIVE Trim(_)
Trim(s) ==
    IF Len(s) = 0 THEN s
    ELSE IF SubSeq(s, 1, 1) = " " THEN Trim(SubSeq(s, 2, Len(s)))
    ELSE IF SubSeq(s, Len(s), Len(s)) = " " THEN Trim(SubSeq(s, 1, Len(s) - 1))
    ELSE s

\* str::replace of one character by another string
RECURSIVE ReplaceChar(_, _, _)
ReplaceChar(s, c, by) ==
    IF Len(s) = 0 THEN ""
    ELSE (IF SubSeq(s, 1, 1) = c THEN by ELSE SubSeq(s, 1, 1))
         \o ReplaceChar(SubSeq(s, 2, Len(s)), c, by)

\* the loop of normalize_version_for_arch that cuts at Debian-specific suffixes
RECURSIVE CutAtSuffixes(_, _)
CutAtSuffixes(v, suffixes) ==
    IF suffixes = <<>> THEN v
    ELSE CutAtSuffixes(
             IF Find(v, Head(suffixes)) > 0
             THEN SubSeq(v, 1, Find(v, Head(suffixes)) - 1) ELSE v,
             Tail(suffixes))

\* Dependency::normalize_version_for_arch
NormalizeVersionForArch(version) ==
    LET trimmed == Trim(version)
        no_epoch == IF Find(trimmed, ":") > 0
                    THEN SubSeq(trimmed, Find(trimmed, ":") + 1, Len(trimmed))
                    ELSE trimmed
        pos == RFind(no_epoch, "-")
        suffix == SubSeq(no_epoch, pos + 1, Len(no_epoch))
        no_revision ==
            IF pos > 0 /\ (\/ (Len(suffix) > 0 /\ IsAsciiDigit(SubSeq(suffix, 1, 1)))
                           \/ Find(suffix, "ubuntu") > 0 \/ Find(suffix, "debian") > 0
                           \/ Find(suffix, "build") > 0 \/ Find(suffix, "deb") > 0)
            THEN SubSeq(no_epoch, 1, pos - 1) ELSE no_epoch
        cut == CutAtSuffixes(no_revision,
                   <<"+dfsg", "~dfsg", "+ds", "~ds", "+really", "~really">>)
    IN  ReplaceChar(cut, "~", ".")

\* Dependency::to_arch_string
ToArchString(dep) ==
    IF dep.version_op # None /\ dep.version # None
    THEN LET normalized_ver == NormalizeVersionForArch(dep.version[1])
         IN  IF normalized_ver = "" THEN EffectiveName(dep)
             ELSE EffectiveName(dep) \o ToArchFormat(dep.version_op[1]) \o normalized_ver
    ELSE EffectiveName(dep)

-----------------------------------------------------------------------------
(* Mapping Store: src/src/resolver/database.rs *)

Mapping(arch, confidence) == [arch_name |-> arch, confidence |-> confidence]

\* load_builtin_mappings: the Java block of the table (lines 119-153) and the
\* entries the specification names; the other rows of the table have the same
\* shape (a debian name, an arch name, a confidence of 0.8, 0.9 or 1.0).
BuiltinMappings ==
    ("default-jre" :> Mapping("java-runtime", 100)) @@
    ("default-jre-headless" :> Mapping("java-runtime-headless", 100)) @@
    ("default-jdk" :> Mapping("java-sdk", 100)) @@
    ("default-jdk-headless" :> Mapping("java-sdk", 90)) @@
    ("openjdk-8-jre" :> Mapping("jre8-openjdk", 100)) @@
    ("openjdk-8-jre-headless" :> Mapping("jre8-openjdk-headless", 100)) @@
    ("openjdk-8-jdk" :> Mapping("jdk8-openjdk", 100)) @@
    ("openjdk-8-jdk-headless" :> Mapping("jdk8-openjdk", 90)) @@
    ("openjdk-11-jre" :> Mapping("jre11-openjdk", 100)) @@
    ("openjdk-11-jre-headless" :> Mapping("jre11-openjdk-headless", 100)) @@
    ("openjdk-11-jdk" :> Mapping("jdk11-openjdk", 100)) @@
    ("openjdk-11-jdk-headless" :> Mapping("jdk11-openjdk", 90)) @@
    ("openjdk-17-jre" :> Mapping("jre17-openjdk", 100)) @@
    ("openjdk-17-jre-headless" :> Mapping("jre17-openjdk-headless", 100)) @@
    ("openjdk-17-jdk" :> Mapping("jdk17-openjdk", 100)) @@
    ("openjdk-17-jdk-headless" :> Mapping("jdk17-openjdk", 90)) @@
    ("openjdk-21-jre" :> Mapping("jre21-openjdk", 100)) @@
    ("openjdk-21-jre-headless" :> Mapping("jre21-openjdk-headless", 100)) @@
    ("openjdk-21-jdk" :> Mapping("jdk21-openjdk", 100)) @@
    ("openjdk-21-jdk-headless" :> Mapping("jdk21-openjdk", 90)) @@
    ("java-runtime" :> Mapping("jre-openjdk", 100)) @@
    ("java-runtime-headless" :> Mapping("jre-openjdk-headless", 100)) @@
    ("java-sdk" :> Mapping("jdk-openjdk", 100)) @@
    ("jre-openjdk" :> Mapping("jre-openjdk", 100)) @@
    ("jdk-openjdk" :> Mapping("jdk-openjdk", 100)) @@
    ("libc6" :> Mapping("glibc", 100)) @@
    ("libc6-dev" :> Mapping("glibc", 90)) @@
    ("zlib1g" :> Mapping("zlib", 100)) @@
    ("libssl1.1" :> Mapping("openssl", 90)) @@
    ("libssl3" :> Mapping("openssl", 100)) @@
    ("mawk" :> Mapping("gawk", 80)) @@
    ("python3" :> Mapping("python", 100)) @@
    ("python3-numpy" :> Mapping("python-numpy", 100))

\* load_builtin_mappings: the virtual packages and their providers
VirtualPackages ==
    ("debconf" :> <<"dialog", "whiptail">>) @@
    ("awk" :> <<"gawk", "mawk", "nawk">>) @@
    ("c-compiler" :> <<"gcc", "clang">>) @@
    ("c++-compiler" :> <<"gcc", "clang">>) @@
    ("java-runtime" :>
        <<"jre-openjdk", "jre17-openjdk", "jre11-openjdk", "jre8-openjdk">>) @@
    ("java-runtime-headless" :>
        <<"jre-openjdk-headless", "jre17-openjdk-headless",
          "jre11-openjdk-headless", "jre8-openjdk-headless">>) @@
    ("java-sdk" :>
        <<"jdk-openjdk", "jdk17-openjdk", "jdk11-openjdk", "jdk8-openjdk">>) @@
    ("java-sdk-headless" :>
        <<"jdk-openjdk", "jdk17-openjdk", "jdk11-openjdk", "jdk8-openjdk">>) @@
    ("java8-runtime" :> <<"jre8-openjdk">>) @@
    ("java8-runtime-headless" :> <<"jre8-openjdk-headless">>) @@
    ("java11-runtime" :> <<"jre11-openjdk">>) @@
    ("java17-runtime" :> <<"jre17-openjdk">>) @@
    ("java21-runtime" :> <<"jre21-openjdk">>) @@
    ("www-browser" :> <<"firefox", "chromium", "vivaldi">>) @@
    ("x-terminal-emulator" :> <<"alacritty", "kitty", "gnome-terminal", "konsole">>) @@
    ("editor" :> <<"vim", "nano", "emacs">>) @@
    ("mail-transport-agent" :> <<"postfix", "exim">>)

\* PackageDatabase::load_cached_data, for mappings.json: the persisted entries
\* extend the table, replacing the entries that have the same key
LoadCachedData(maps, custom) ==
    [n \in DOMAIN maps \cup DOMAIN custom |->
        IF n \in DOMAIN custom THEN custom[n] ELSE maps[n]]

\* defect: lookup tests the target-repository cache before the mapping table
LookupCacheFirst(maps, packages, debian_name) ==
    IF debian_name \in DOMAIN packages
    THEN {Some(Mapping(debian_name, 100))}
    ELSE IF debian_name \in DOMAIN maps
    THEN {Some(Mapping(maps[debian_name].arch_name, maps[debian_name].confidence))}
    ELSE LET providers ==
                 {n \in DOMAIN packages : debian_name \in Range(packages[n].provides)}
         IN  IF providers = {} THEN {None}
             ELSE {Some(Mapping(n, 90)) : n \in providers}

\* PackageDatabase::lookup. The scan of the provides relations iterates a HashMap,
\* so when several cached packages provide the name any of them may be returned:
\* the operator gives the set of results the call can produce.
Lookup(maps, packages, debian_name) ==
    IF debian_name \in DOMAIN maps
    THEN {Some(Mapping(maps[debian_name].arch_name, maps[debian_name].confidence))}
    ELSE IF debian_name \in DOMAIN packages
    THEN {Some(Mapping(debian_name, 100))}
    ELSE LET providers ==
                 {n \in DOMAIN packages : debian_name \in Range(packages[n].provides)}
         IN  IF providers = {} THEN {None}
             ELSE {Some(Mapping(n, 90)) : n \in providers}

\* PackageDatabase::is_virtual
IsVirtual(name) == name \in DOMAIN VirtualPackages

\* PackageDatabase::get_arch_package_names
GetArchPackageNames(packages) == DOMAIN packages

\* PackageDatabase::add_mapping
AddMappingTo(maps, debian, arch, confidence) ==
    [n \in DOMAIN maps \cup {debian} |->
        IF n = debian THEN Mapping(arch, confidence) ELSE maps[n]]

-----------------------------------------------------------------------------
(* Fuzzy Matcher: src/src/resolver/fuzzy.rs *)

\* FuzzyMatcher::new: min_score
MinScore == 60

\* a minimum score above the default one, in hundredths
HighMinScore == 80

UpperAlphabet == "ABCDEFGHIJKLMNOPQRSTUVWXYZ"
LowerAlphabet == "abcdefghijklmnopqrstuvwxyz"

\* str::to_lowercase (ASCII)
RECURSIVE ToLowercase(_)
ToLowercase(s) ==
    IF Len(s) = 0 THEN ""
    ELSE LET c == SubSeq(s, 1, 1)
             lc == IF Contains(UpperAlphabet, c)
                   THEN LET i == CHOOSE i \in 1..Len(UpperAlphabet) :
                                    SubSeq(UpperAlphabet, i, i) = c
                        IN  SubSeq(LowerAlphabet, i, i)
                   ELSE c
         IN  lc \o ToLowercase(SubSeq(s, 2, Len(s)))

\* the prefixes and suffixes normalize_name removes, in the order it tries them
NormalizePrefixes == <<"lib", "python3-", "python-", "perl-", "ruby-", "node-", "golang-">>
NormalizeSuffixes == <<"-dev", "-dbg", "-doc", "-common", "-data", "-bin", "-utils">>

\* the loop over the prefixes: the first one the name starts with is removed
RECURSIVE StripFirstPrefix(_, _)
StripFirstPrefix(s, prefixes) ==
    IF prefixes = <<>> THEN s
    ELSE IF StartsWith(s, Head(prefixes))
    THEN SubSeq(s, Len(Head(prefixes)) + 1, Len(s))
    ELSE StripFirstPrefix(s, Tail(prefixes))

\* the loop over the suffixes: the first one the name ends with is removed
RECURSIVE StripFirstSuffix(_, _)
StripFirstSuffix(s, suffixes) ==
    IF suffixes = <<>> THEN s
    ELSE IF EndsWith(s, Head(suffixes))
    THEN SubSeq(s, 1, Len(s) - Len(Head(suffixes)))
    ELSE StripFirstSuffix(s, Tail(suffixes))

\* str::replace(['-', '_'], "")
RECURSIVE RemoveSeparators(_)
RemoveSeparators(s) ==
    IF Len(s) = 0 THEN ""
    ELSE (IF SubSeq(s, 1, 1) \in {"-", "_"} THEN "" ELSE SubSeq(s, 1, 1))
         \o RemoveSeparators(SubSeq(s, 2, Len(s)))

\* FuzzyMatcher::normalize_name
NormalizeName(name) ==
    RemoveSeparators(
        StripTrailingDigits(
            StripFirstSuffix(
                StripFirstPrefix(ToLowercase(name), NormalizePrefixes),
                NormalizeSuffixes)))

Match(name, score) == [name |-> name, score |-> score]

\* the table common_renames of heuristic_match
CommonRenames ==
    ("apt" :> "pacman") @@ ("dpkg" :> "pacman") @@
    ("default-jre" :> "jre-openjdk") @@ ("default-jdk" :> "jdk-openjdk") @@
    ("openjdk-11-jre" :> "jre11-openjdk") @@ ("openjdk-17-jre" :> "jre17-openjdk") @@
    ("libreoffice-core" :> "libreoffice-fresh")

\* FuzzyMatcher::heuristic_match
HeuristicMatch(debian_name) ==
    LET name == ToLowercase(debian_name)
        stripped == StripTrailingDigits(name)
        core == SubSeq(name, 4, Len(name) - 4)
        taken == TakeWhileNotDigit(core)
        core_clean == IF EndsWith(taken, "-")
                      THEN SubSeq(taken, 1, Len(taken) - 1) ELSE taken
    IN  IF StartsWith(name, "lib") /\ stripped # name /\ Len(stripped) > 3
        THEN Some(Match(stripped, 70))
        ELSE IF StartsWith(name, "python3-")
        THEN Some(Match("python-" \o SubSeq(name, 9, Len(name)), 80))
        ELSE IF StartsWith(name, "lib") /\ EndsWith(name, "-dev") /\ core_clean # ""
        THEN Some(Match("lib" \o core_clean, 65))
        ELSE IF EndsWith(name, "-dev")
        THEN Some(Match(SubSeq(name, 1, Len(name) - 4), 60))
        ELSE IF name \in DOMAIN CommonRenames
        THEN Some(Match(CommonRenames[name], 90))
        ELSE None

\* the loop of find_best_match with "score >= *s" for "score > *s"
RECURSIVE BestCandidateLastWins(_, _, _, _)
BestCandidateLastWins(min_score, candidates, score, best) ==
    IF candidates = <<>> THEN best
    ELSE LET c == Head(candidates)
             next == IF score[c] >= min_score /\ (best = None \/ score[c] >= best[1].score)
                     THEN Some(Match(c, score[c])) ELSE best
         IN  BestCandidateLastWins(min_score, Tail(candidates), score, next)

\* the candidate loop of find_best_match: candidates in iteration order, score[c]
\* the value of calculate_score(debian_name, c)
RECURSIVE BestCandidate(_, _, _, _)
BestCandidate(min_score, candidates, score, best) ==
    IF candidates = <<>> THEN best
    ELSE LET c == Head(candidates)
             next == IF score[c] >= min_score /\ (best = None \/ score[c] > best[1].score)
                     THEN Some(Match(c, score[c])) ELSE best
         IN  BestCandidate(min_score, Tail(candidates), score, next)

\* FuzzyMatcher::find_best_match on a matcher whose field min_score holds
\* min_score. calculate_score combines the scores of three string-similarity
\* libraries; its value for each candidate is an input here.
FindBestMatch(min_score, debian_name, candidates, score) ==
    IF candidates = <<>> THEN HeuristicMatch(debian_name)
    ELSE LET best == BestCandidate(min_score, candidates, score, None)
             h == HeuristicMatch(debian_name)
         IN  IF h # None /\ (best = None \/ h[1].score > best[1].score)
             THEN h ELSE best

-----------------------------------------------------------------------------
(* Remote Repository Client: src/src/resolver/aur.rs *)

Ok(v) == [ok |-> TRUE, value |-> v]
Err(kind, msg) == [ok |-> FALSE, kind |-> kind, msg |-> msg]

\* struct AurPackage: the fields the resolver and find_providers read
AurPackage(name, provides, popularity) ==
    [name |-> name, provides |-> provides, popularity |-> popularity]

\* the packages the remote service may answer with
AurPackages ==
    {AurPackage("awk", <<>>, 1),
     AurPackage("jre-openjdk-git", <<"awk">>, 5),
     AurPackage("mawk-git", <<>>, 5)}

\* what one HTTP exchange can come to: the request fails in transport, the
\* status is not a success, the body does not decode, the decoded body carries
\* an error string, or it carries a result list
RemoteResponses ==
    {[cause |-> c, results |-> <<>>] :
        c \in {"transport", "status", "decode", "service"}}
    \cup {[cause |-> "ok", results |-> r] : r \in InjSeqs(AurPackages, MaxResults)}

\* AurClient::make_request
MakeRequest(resp) ==
    IF resp.cause = "transport" THEN Err("Network", "transport")
    ELSE IF resp.cause = "status" THEN Err("Network", "status")
    ELSE IF resp.cause = "decode" THEN Err("Network", "decode")
    ELSE IF resp.cause = "service" THEN Err("AurApi", "service")
    ELSE Ok(resp.results)

\* AurClient::info
Info(names, resp) == IF names = <<>> THEN Ok(<<>>) ELSE MakeRequest(resp)

\* AurClient::search
Search(query, resp) == MakeRequest(resp)

\* results.sort_by(popularity, descending): a stable sort
RECURSIVE InsertByPopularity(_, _)
InsertByPopularity(sorted, pkg) ==
    IF sorted = <<>> THEN <<pkg>>
    ELSE IF Head(sorted).popularity >= pkg.popularity
    THEN <<Head(sorted)>> \o InsertByPopularity(Tail(sorted), pkg)
    ELSE <<pkg>> \o sorted

RECURSIVE SortByPopularity(_, _)
SortByPopularity(todo, sorted) ==
    IF todo = <<>> THEN sorted
    ELSE SortByPopularity(Tail(todo), InsertByPopularity(sorted, Head(todo)))

\* AurClient::find_providers
FindProviders(capability, resp) ==
    LET found == Search(capability, resp)
        Provides(pkg) == pkg.name = capability \/ capability \in Range(pkg.provides)
    IN  IF ~found.ok THEN found
        ELSE Ok(SortByPopularity(SelectSeq(found.value, Provides), <<>>))

-----------------------------------------------------------------------------
(* Resolution Orchestrator: src/src/resolver/mod.rs *)

\* the outcomes of resolve_single, shared by the function and its defective variants
Outcome(dep, calls, result) == [dep |-> dep, calls |-> calls, result |-> result]

FromProviders(dep, providers) ==
    SetArchName(dep, Head(providers.value).name,
                IF Head(providers.value).name = dep.debian_name THEN 100 ELSE 80)

Unresolved(dep) ==
    IF IsVirtual(dep.debian_name) THEN [dep EXCEPT !.is_virtual = TRUE] ELSE dep

\* defect: the remote info stage is consulted before the fuzzy match
ResolveSingleRemoteFirst(dep, lk, fz, info, providers) ==
    IF IsMapped(dep) THEN Outcome(dep, <<>>, "Ok")
    ELSE IF lk # None
    THEN Outcome(SetArchName(dep, lk[1].arch_name, lk[1].confidence), <<"lookup">>, "Ok")
    ELSE IF info.ok /\ info.value # <<>>
    THEN Outcome(SetArchName(dep, Head(info.value).name, 100), <<"lookup", "info">>, "Ok")
    ELSE IF fz # None
    THEN Outcome(SetArchName(dep, fz[1].name, fz[1].score),
                 <<"lookup", "info", "find_best_match">>, "Ok")
    ELSE IF providers.ok /\ providers.value # <<>>
    THEN Outcome(FromProviders(dep, providers),
                 <<"lookup", "info", "find_best_match", "find_providers">>, "Ok")
    ELSE Outcome(Unresolved(dep),
                 <<"lookup", "info", "find_best_match", "find_providers", "is_virtual">>,
                 "Ok")

\* defect: a failure of the info request ends the pipeline for the dependency
ResolveSingleGivesUp(dep, lk, fz, info, providers) ==
    IF IsMapped(dep) THEN Outcome(dep, <<>>, "Ok")
    ELSE IF lk # None
    THEN Outcome(SetArchName(dep, lk[1].arch_name, lk[1].confidence), <<"lookup">>, "Ok")
    ELSE IF fz # None
    THEN Outcome(SetArchName(dep, fz[1].name, fz[1].score),
                 <<"lookup", "find_best_match">>, "Ok")
    ELSE IF ~info.ok
    THEN Outcome(dep, <<"lookup", "find_best_match", "info">>, "Ok")
    ELSE IF info.value # <<>>
    THEN Outcome(SetArchName(dep, Head(info.value).name, 100),
                 <<"lookup", "find_best_match", "info">>, "Ok")
    ELSE IF providers.ok /\ providers.value # <<>>
    THEN Outcome(FromProviders(dep, providers),
                 <<"lookup", "find_best_match", "info", "find_providers">>, "Ok")
    ELSE Outcome(Unresolved(dep),
                 <<"lookup", "find_best_match", "info", "find_providers", "is_virtual">>,
                 "Ok")

\* defect: the remote calls are followed by `?`, so their errors are returned
ResolveSinglePropagates(dep, lk, fz, info, providers) ==
    IF IsMapped(dep) THEN Outcome(dep, <<>>, "Ok")
    ELSE IF lk # None
    THEN Outcome(SetArchName(dep, lk[1].arch_name, lk[1].confidence), <<"lookup">>, "Ok")
    ELSE IF fz # None
    THEN Outcome(SetArchName(dep, fz[1].name, fz[1].score),
                 <<"lookup", "find_best_match">>, "Ok")
    ELSE IF ~info.ok
    THEN Outcome(dep, <<"lookup", "find_best_match", "info">>, "Err")
    ELSE IF info.value # <<>>
    THEN Outcome(SetArchName(dep, Head(info.value).name, 100),
                 <<"lookup", "find_best_match", "info">>, "Ok")
    ELSE IF ~providers.ok
    THEN Outcome(dep, <<"lookup", "find_best_match", "info", "find_providers">>, "Err")
    ELSE IF providers.value # <<>>
    THEN Outcome(FromProviders(dep, providers),
                 <<"lookup", "find_best_match", "info", "find_providers">>, "Ok")
    ELSE Outcome(Unresolved(dep),
                 <<"lookup", "find_best_match", "info", "find_providers", "is_virtual">>,
                 "Ok")

\* defect: the is_mapped test at the head of resolve_single is missing
ResolveSingleNoSkip(dep, lk, fz, info, providers) ==
    IF lk # None
    THEN Outcome(SetArchName(dep, lk[1].arch_name, lk[1].confidence), <<"lookup">>, "Ok")
    ELSE IF fz # None
    THEN Outcome(SetArchName(dep, fz[1].name, fz[1].score),
                 <<"lookup", "find_best_match">>, "Ok")
    ELSE IF info.ok /\ info.value # <<>>
    THEN Outcome(SetArchName(dep, Head(info.value).name, 100),
                 <<"lookup", "find_best_match", "info">>, "Ok")
    ELSE IF providers.ok /\ providers.value # <<>>
    THEN Outcome(FromProviders(dep, providers),
                 <<"lookup", "find_best_match", "info", "find_providers">>, "Ok")
    ELSE Outcome(Unresolved(dep),
                 <<"lookup", "find_best_match", "info", "find_providers", "is_virtual">>,
                 "Ok")

\* DependencyResolver::resolve_single. lk, fz, info and providers are what the
\* four stages return when they are called; calls is the list of the stages the
\* function did call, in order.
ResolveSingle(dep, lk, fz, info, providers) ==
    IF IsMapped(dep) THEN Outcome(dep, <<>>, "Ok")
    ELSE IF lk # None
    THEN Outcome(SetArchName(dep, lk[1].arch_name, lk[1].confidence), <<"lookup">>, "Ok")
    ELSE IF fz # None
    THEN Outcome(SetArchName(dep, fz[1].name, fz[1].score),
                 <<"lookup", "find_best_match">>, "Ok")
    ELSE IF info.ok /\ info.value # <<>>
    THEN Outcome(SetArchName(dep, Head(info.value).name, 100),
                 <<"lookup", "find_best_match", "info">>, "Ok")
    ELSE IF providers.ok /\ providers.value # <<>>
    THEN Outcome(FromProviders(dep, providers),
                 <<"lookup", "find_best_match", "info", "find_providers">>, "Ok")
    ELSE Outcome(Unresolved(dep),
                 <<"lookup", "find_best_match", "info", "find_providers", "is_virtual">>,
                 "Ok")

\* the array dep_types of DependencyResolver::resolve
ResolvedTypes ==
    <<"Depends", "PreDepends", "Recommends", "Suggests", "Conflicts",
      "Replaces", "Provides", "Breaks">>

\* the positions resolve's loops visit, in order: for each type of dep_types that
\* the metadata has, each dependency (alt = 0) followed by its alternatives
PositionsOf(t, deps) ==
    Concat([i \in 1..Len(deps) |->
        [a \in 1..(Len(deps[i].alternatives) + 1) |->
            [dep_type |-> t, dep |-> i, alt |-> a - 1]]])

WorkList(md) ==
    Concat([j \in 1..Len(ResolvedTypes) |->
        IF ResolvedTypes[j] \in DOMAIN md
        THEN PositionsOf(ResolvedTypes[j], md[ResolvedTypes[j]]) ELSE <<>>])

DepAt(md, pos) ==
    IF pos.alt = 0 THEN md[pos.dep_type][pos.dep]
    ELSE md[pos.dep_type][pos.dep].alternatives[pos.alt]

SetDepAt(md, pos, d) ==
    IF pos.alt = 0 THEN [md EXCEPT ![pos.dep_type][pos.dep] = d]
    ELSE [md EXCEPT ![pos.dep_type][pos.dep].alternatives[pos.alt] = d]

\* config.rs: JavaConfig, the two fields conflict handling reads
JavaConfig(strategy, add) == [conflict_strategy |-> strategy, add_java_conflicts |-> add]

\* impl Default for JavaConfig
DefaultJavaConfig == JavaConfig("prefer-jdk", TRUE)

JavaJrePatterns ==
    {"jre-openjdk", "jre8-openjdk", "jre11-openjdk", "jre17-openjdk",
     "jre21-openjdk", "jre-openjdk-headless", "jre8-openjdk-headless",
     "jre11-openjdk-headless", "jre17-openjdk-headless", "jre21-openjdk-headless"}

JavaJdkPatterns ==
    {"jdk-openjdk", "jdk8-openjdk", "jdk11-openjdk", "jdk17-openjdk", "jdk21-openjdk"}

MatchesAny(arch_name, patterns) == \E p \in patterns : Contains(arch_name, p)

\* the scan of handle_java_conflicts, for one pattern family: the
\* (dep_type, debian_name, arch_name) triples in iteration order
JavaDepsOf(t, deps, patterns) ==
    LET Hit(d) == d.arch_name # None /\ MatchesAny(d.arch_name[1], patterns)
        hits == SelectSeq(deps, Hit)
    IN  [i \in 1..Len(hits) |->
            [dep_type |-> t, debian_name |-> hits[i].debian_name,
             arch_name |-> hits[i].arch_name[1]]]

JavaDeps(md, order, patterns) ==
    Concat([i \in 1..Len(order) |-> JavaDepsOf(order[i], md[order[i]], patterns)])

\* the loops `deps.retain(|dep| dep.debian_name != *debian_name)` over a list of triples
RetainOthers(md, removed) ==
    [t \in DOMAIN md |->
        LET Keep(d) == ~\E i \in 1..Len(removed) :
                          removed[i].dep_type = t /\ removed[i].debian_name = d.debian_name
        IN  SelectSeq(md[t], Keep)]

\* the triples whose dependencies the configured strategy removes
StrategyRemoves(strategy, jre_deps, jdk_deps) ==
    IF strategy = "prefer-jdk" THEN jre_deps
    ELSE IF strategy = "prefer-jre" THEN jdk_deps
    ELSE IF strategy = "jre" THEN jdk_deps
    ELSE IF strategy = "jdk" THEN jre_deps
    ELSE IF strategy = "prompt" THEN jre_deps
    ELSE jre_deps

\* the conflict declarations handle_java_conflicts collects
ConflictNames(jre_deps) == [i \in 1..Len(jre_deps) |-> jre_deps[i].arch_name]

\* the loop that pushes the conflicts not yet among the existing ones
RECURSIVE PushConflicts(_, _)
PushConflicts(existing, conflicts) ==
    IF conflicts = <<>> THEN existing
    ELSE LET conflict_dep == NewDependency(Head(conflicts))
             present == \E i \in 1..Len(existing) :
                            EffectiveName(existing[i]) = EffectiveName(conflict_dep)
         IN  PushConflicts(IF present THEN existing ELSE Append(existing, conflict_dep),
                           Tail(conflicts))

\* metadata.dependencies.entry(Conflicts).or_default(), then the pushes
AddConflicts(md, conflicts) ==
    IF conflicts = <<>> THEN md
    ELSE [t \in DOMAIN md \cup {"Conflicts"} |->
            IF t = "Conflicts"
            THEN PushConflicts(IF t \in DOMAIN md THEN md[t] ELSE <<>>, conflicts)
            ELSE md[t]]

\* DependencyResolver::handle_java_conflicts, with the configuration it loads and
\* the order in which it iterates metadata.dependencies
HandleJavaConflicts(md, config, order) ==
    IF ~config.add_java_conflicts THEN md
    ELSE LET Handled(jre_deps, jdk_deps) ==
                 IF jre_deps # <<>> /\ jdk_deps # <<>>
                 THEN LET kept == RetainOthers(md,
                                     StrategyRemoves(config.conflict_strategy, jre_deps, jdk_deps))
                      IN  IF config.add_java_conflicts
                          THEN AddConflicts(kept, ConflictNames(jre_deps))
                          ELSE kept
                 ELSE md
         IN  Handled(JavaDeps(md, order, JavaJrePatterns),
                     JavaDeps(md, order, JavaJdkPatterns))

\* an f32 quotient n / d, kept exact
Ratio(n, d) == [num |-> n, den |-> d]

\* defect: stats tests is_virtual before is_mapped
CountDependencyVirtualFirst(stats, dep) ==
    LET s == [stats EXCEPT !.total = @ + 1]
    IN  IF dep.is_virtual
        THEN [s EXCEPT !.virtual_packages = @ + 1]
        ELSE IF IsMapped(dep)
        THEN [s EXCEPT !.mapped = @ + 1, !.total_confidence = @ + dep.confidence]
        ELSE [s EXCEPT !.unmapped = @ + 1,
                       !.unmapped_names = Append(@, dep.debian_name)]

\* the loop of DependencyResolver::stats over one dependency
CountDependency(stats, dep) ==
    LET s == [stats EXCEPT !.total = @ + 1]
    IN  IF IsMapped(dep)
        THEN [s EXCEPT !.mapped = @ + 1, !.total_confidence = @ + dep.confidence]
        ELSE IF dep.is_virtual
        THEN [s EXCEPT !.virtual_packages = @ + 1]
        ELSE [s EXCEPT !.unmapped = @ + 1,
                       !.unmapped_names = Append(@, dep.debian_name)]

RECURSIVE CountDependencies(_, _)
CountDependencies(stats, deps) ==
    IF deps = <<>> THEN stats
    ELSE CountDependencies(CountDependency(stats, Head(deps)), Tail(deps))

\* ResolutionStats::default
DefaultStats ==
    [total |-> 0, mapped |-> 0, unmapped |-> 0, virtual_packages |-> 0,
     avg_confidence |-> Ratio(0, 1), total_confidence |-> 0, unmapped_names |-> <<>>]

\* DependencyResolver::stats, with the order in which it iterates the classes
Stats(md, order) ==
    LET s == CountDependencies(DefaultStats, Concat([i \in 1..Len(order) |-> md[order[i]]]))
    IN  IF s.mapped > 0
        THEN [s EXCEPT !.avg_confidence = Ratio(s.total_confidence, s.mapped)]
        ELSE s

\* ResolutionStats::success_rate
SuccessRate(stats) ==
    IF stats.total = 0 THEN Ratio(1, 1)
    ELSE Ratio(stats.mapped + stats.virtual_packages, stats.total)

-----------------------------------------------------------------------------
(* Inputs *)

\* the foreign names of the input packages' dependencies: one with an exact
\* mapping (into the JDK family), one only the heuristics map, and a virtual
\* capability that has no mapping (the remote service may answer it with a
\* package of the JRE family)
DebianNames == {"java-sdk", "libfoo2", "awk"}

\* the classes the input packages declare dependencies in
InputTypes == <<"Depends", "BuildDepends">>

\* a dependency as extraction leaves it (Dependency::parse), of n objects:
\* the dependency and its n - 1 alternatives
ParsedDependencies(n) ==
    {[NewDependency(name) EXCEPT !.alternatives = alts] :
        name \in DebianNames,
        alts \in [1..(n - 1) -> {NewDependency(a) : a \in DebianNames}]}

DependencySize(dep) == 1 + Len(dep.alternatives)

\* the dependency lists of at most n objects
RECURSIVE DependencyLists(_)
DependencyLists(n) ==
    {<<>>} \cup
    UNION {UNION {{<<d>> \o rest : rest \in DependencyLists(n - k)} :
                     d \in ParsedDependencies(k)} : k \in 1..n}

ListSize(deps) == SumSeq([i \in 1..Len(deps) |-> DependencySize(deps[i])])

\* PackageMetadata::add_dep, for a whole list: a class has a key once a
\* dependency was added to it
AddDeps(md, t, deps) ==
    IF deps = <<>> THEN md
    ELSE [u \in DOMAIN md \cup {t} |->
            IF u = t THEN (IF t \in DOMAIN md THEN md[t] ELSE <<>>) \o deps ELSE md[u]]

\* PackageMetadata::new: no dependencies
NewMetadata == [t \in {} |-> <<>>]

\* the metadata of at most n Dependency objects over the classes types
RECURSIVE Packages(_, _)
Packages(types, n) ==
    IF types = <<>> THEN {NewMetadata}
    ELSE UNION {{AddDeps(md, Head(types), deps) : md \in Packages(Tail(types), n - ListSize(deps))} :
                   deps \in DependencyLists(n)}

\* the target-repository cache files the Mapping Store may find at construction
ArchCaches == {<<>>, ("gawk" :> [provides |-> <<"awk">>])}

\* the values calculate_score may take for a candidate
ScoreValues == {30, 75}

\* the arguments of add_mapping
AddMappingArgs ==
    {[debian |-> "awk", arch |-> "gawk", confidence |-> c] : c \in {90, 150}}

\* the configurations Config::load may return
JavaConfigs ==
    {JavaConfig(s, TRUE) :
        s \in {"prefer-jdk", "prefer-jre", "jre", "jdk", "prompt", "unknown"}}
    \cup {JavaConfig("prefer-jdk", FALSE)}

\* the configurations Config::load returns to the resolve calls: the default,
\* the opposite preference, and conflict handling switched off
\* ConversionConfig::min_match_confidence: its default and a raised value
MinMatchConfidences == {MinScore, HighMinScore}

ResolveConfigs ==
    {DefaultJavaConfig, JavaConfig("prefer-jre", TRUE), JavaConfig("prefer-jdk", FALSE)}

-----------------------------------------------------------------------------
(* The resolver as a state machine *)

Init ==
    /\ NoBuilder
    /\ NoMapper
    /\ mappings = BuiltinMappings
    /\ arch_packages \in ArchCaches
    /\ metadata \in Packages(InputTypes, MaxDeps)
    /\ pc = "idle"
    /\ cur = [k |-> 0, failed |-> FALSE, again |-> FALSE]
    /\ ret = [op |-> "new"]

\* PackageDatabase::add_mapping
AddMapping ==
    /\ pc = "idle"
    /\ \E a \in AddMappingArgs :
          /\ mappings' = AddMappingTo(mappings, a.debian, a.arch, a.confidence)
          /\ ret' = [op |-> "add_mapping", debian |-> a.debian, arch |-> a.arch,
                     confidence |-> a.confidence]
    /\ UNCHANGED <<arch_packages, metadata, pc, cur>>
    /\ UNCHANGED mapper_vars
    /\ UNCHANGED builder_vars

\* DependencyResolver::resolve is called
ResolveCall ==
    /\ pc = "idle"
    /\ pc' = "resolving"
    /\ cur' = [cur EXCEPT !.k = 1, !.failed = FALSE]
    /\ ret' = [op |-> "call"]
    /\ UNCHANGED <<mappings, arch_packages, metadata>>
    /\ UNCHANGED mapper_vars
    /\ UNCHANGED builder_vars

\* a response that carries no package
EmptyResponse == [cause |-> "ok", results |-> <<>>]

\* the responses a stage of resolve_single can receive for this dependency: the
\* remote service answers only the requests that are sent
ResponsesAt(stage, dep, lk, fz, info) ==
    IF stage \in Range(ResolveSingle(dep, lk, fz, info, Ok(<<>>)).calls)
    THEN RemoteResponses ELSE {EmptyResponse}

\* one iteration of resolve's loops: resolve_single on the next dependency or
\* alternative, with the answers of the remote service
ResolveStep ==
    /\ pc = "resolving"
    /\ \E worklist \in {WorkList(metadata)} :
       cur.k <= Len(worklist) /\
       \E pos \in {worklist[cur.k]} :
       \E dep \in {DepAt(metadata, pos)} :
       \E lk \in Lookup(mappings, arch_packages, dep.debian_name),
          candidates \in Perms(GetArchPackageNames(arch_packages)),
          score \in [GetArchPackageNames(arch_packages) -> ScoreValues] :
       \* the matcher is the FuzzyMatcher::new() of DependencyResolver::new
       \E fz \in {FindBestMatch(MinScore, dep.debian_name, candidates, score)} :
       \* the configuration in force during the call
       \E min_match_confidence \in MinMatchConfidences :
       \E info_resp \in ResponsesAt("info", dep, lk, fz, Ok(<<>>)) :
       \E info \in {Info(<<dep.debian_name>>, info_resp)} :
       \E search_resp \in ResponsesAt("find_providers", dep, lk, fz, info) :
       \E providers \in {FindProviders(dep.debian_name, search_resp)} :
       \E r \in {ResolveSingle(dep, lk, fz, info, providers)} :
              LET Called(stage, value) ==
                      IF stage \in Range(r.calls) THEN Some(value) ELSE None
                  failure == \/ "info" \in Range(r.calls) /\ ~info.ok
                             \/ "find_providers" \in Range(r.calls) /\ ~providers.ok
              IN  /\ metadata' = SetDepAt(metadata, pos, r.dep)
                  /\ IF r.result = "Ok"
                     THEN /\ pc' = "resolving"
                          /\ cur' = [cur EXCEPT !.k = @ + 1, !.failed = @ \/ failure]
                          /\ ret' = [op |-> "resolve_single", result |-> r.result,
                                     dep_type |-> pos.dep_type,
                                     before |-> dep, after |-> r.dep, calls |-> r.calls,
                                     lookup |-> Called("lookup", lk),
                                     fuzzy |-> Called("find_best_match", fz),
                                     info |-> Called("info", info),
                                     providers |-> Called("find_providers", providers),
                                     min_match_confidence |-> min_match_confidence,
                                     again |-> cur.again]
                     ELSE \* the `?` after resolve_single: resolve returns the error
                          /\ pc' = "idle"
                          /\ cur' = [cur EXCEPT !.k = 0, !.failed = @ \/ failure, !.again = TRUE]
                          /\ ret' = [op |-> "resolve", result |-> r.result,
                                     failed |-> cur.failed \/ failure,
                                     visited |-> cur.k, worklist |-> Len(worklist)]
    /\ UNCHANGED <<mappings, arch_packages>>
    /\ UNCHANGED mapper_vars
    /\ UNCHANGED builder_vars

\* the end of resolve: conflict handling, then Ok(())
ResolveReturn ==
    /\ pc = "resolving"
    /\ \E worklist \in {WorkList(metadata)} :
          /\ cur.k > Len(worklist)
          /\ \E config \in ResolveConfigs, order \in Perms(DOMAIN metadata) :
                metadata' = HandleJavaConflicts(metadata, config, order)
          /\ ret' = [op |-> "resolve", result |-> "Ok", failed |-> cur.failed,
                     visited |-> cur.k - 1, worklist |-> Len(worklist)]
    /\ pc' = "idle"
    /\ cur' = [cur EXCEPT !.k = 0, !.again = TRUE]
    /\ UNCHANGED <<mappings, arch_packages>>
    /\ UNCHANGED mapper_vars
    /\ UNCHANGED builder_vars

\* DependencyResolver::stats and ResolutionStats::success_rate
StatsCall ==
    /\ pc = "idle"
    /\ \E order \in Perms(DOMAIN metadata) :
       \E stats \in {Stats(metadata, order)} :
          ret' = [op |-> "stats", stats |-> stats, success_rate |-> SuccessRate(stats)]
    /\ UNCHANGED <<mappings, arch_packages, metadata, pc, cur>>
    /\ UNCHANGED mapper_vars
    /\ UNCHANGED builder_vars

Next == AddMapping \/ ResolveCall \/ ResolveStep \/ ResolveReturn \/ StatsCall

Spec == Init /\ [][Next]_vars

-----------------------------------------------------------------------------
(* Conflict handling on its own: handle_java_conflicts is public and is called
   on metadata whose dependencies a resolution has left mapped or unmapped *)

\* a dependency as resolve_single leaves it when a stage hit
Resolved(name, arch, confidence) == SetArchName(NewDependency(name), arch, confidence)

\* the dependencies of the packages handed to conflict handling: two of the
\* JRE family with one resolved name, one of the JDK family, a capability the
\* remote service answered with a JRE-family package and the same capability
\* left unmapped, a library, and a conflict entry as conflict handling inserts it
JavaDependencies ==
    {Resolved("java-runtime", "jre-openjdk", 100),
     Resolved("jre-openjdk", "jre-openjdk", 100),
     Resolved("java-sdk", "jdk-openjdk", 100),
     Resolved("awk", "jre-openjdk-git", 80),
     NewDependency("awk"),
     Resolved("libfoo2", "libfoo", 70),
     NewDependency("jre-openjdk")}

\* the packages of at most n dependencies in the classes Depends and Conflicts
JavaPackages(n) ==
    UNION {{AddDeps(AddDeps(NewMetadata, "Depends", deps), "Conflicts", conflicts) :
                conflicts \in SeqsUpTo(JavaDependencies, n - Len(deps))} :
              deps \in SeqsUpTo(JavaDependencies, n)}

InitJava ==
    /\ NoBuilder
    /\ NoMapper
    /\ mappings = BuiltinMappings
    /\ arch_packages = <<>>
    /\ metadata \in JavaPackages(MaxJavaDeps)
    /\ pc = "idle"
    /\ cur = [k |-> 0, failed |-> FALSE, again |-> FALSE]
    /\ ret = [op |-> "new"]

\* DependencyResolver::handle_java_conflicts is called
HandleJavaConflictsCall ==
    /\ pc = "idle"
    /\ \E config \in JavaConfigs, order \in Perms(DOMAIN metadata) :
          /\ metadata' = HandleJavaConflicts(metadata, config, order)
          /\ ret' = [op |-> "handle_java_conflicts", result |-> "Ok", config |-> config,
                     before |-> metadata]
    /\ UNCHANGED <<mappings, arch_packages, pc, cur>>
    /\ UNCHANGED mapper_vars
    /\ UNCHANGED builder_vars

NextJava == HandleJavaConflictsCall

SpecJava == InitJava /\ [][NextJava]_vars

-----------------------------------------------------------------------------
(* Properties of resolve_single and resolve *)

\* the pipeline stages, in the order the specification gives
Stages == <<"lookup", "find_best_match", "info", "find_providers", "is_virtual">>

\* ret records a return of resolve_single
SingleReturned == ret.op = "resolve_single"

\* what a stage recorded in ret yielded: None, or the name and confidence it proposes
Yield(stage) ==
    IF stage = "lookup"
    THEN IF ret.lookup = None \/ ret.lookup[1] = None THEN None
         ELSE Some([name |-> ret.lookup[1][1].arch_name,
                    confidence |-> ret.lookup[1][1].confidence])
    ELSE IF stage = "find_best_match"
    THEN IF ret.fuzzy = None \/ ret.fuzzy[1] = None THEN None
         ELSE Some([name |-> ret.fuzzy[1][1].name, confidence |-> ret.fuzzy[1][1].score])
    ELSE IF stage = "info"
    THEN IF ret.info = None \/ ~ret.info[1].ok THEN None
         ELSE IF ret.info[1].value = <<>> THEN None
         ELSE Some([name |-> Head(ret.info[1].value).name, confidence |-> 100])
    ELSE IF stage = "find_providers"
    THEN IF ret.providers = None \/ ~ret.providers[1].ok THEN None
         ELSE IF ret.providers[1].value = <<>> THEN None
         ELSE Some([name |-> Head(ret.providers[1].value).name,
                    confidence |-> IF Head(ret.providers[1].value).name
                                         = ret.before.debian_name
                                   THEN 100 ELSE 80])
    ELSE None

\* a remote stage recorded in ret was called and failed
InfoFailed == ret.info # None /\ ~ret.info[1].ok
ProvidersFailed == ret.providers # None /\ ~ret.providers[1].ok

\* C1: resolve_single on an unmapped dependency calls the stages in the order
\* lookup, fuzzy match, remote info, remote find_providers, stops at the first
\* stage that yields a result and takes that stage's name and confidence; no
\* stage is called after one has yielded; a mapped dependency is left
\* unchanged and no stage is called for it.
C1_FirstStageWins ==
    SingleReturned =>
        IF IsMapped(ret.before)
        THEN ret.calls = <<>> /\ ret.after = ret.before
        ELSE \E n \in 1..Len(Stages) :
                /\ ret.calls = SubSeq(Stages, 1, n)
                /\ \A i \in 1..(n - 1) : Yield(Stages[i]) = None
                /\ IF Yield(Stages[n]) # None
                   THEN /\ ret.after.arch_name = Some(Yield(Stages[n])[1].name)
                        /\ ret.after.confidence = Yield(Stages[n])[1].confidence
                   ELSE n = Len(Stages) /\ ret.after.arch_name = None

\* C1 witness: the fuzzy match hit, and no remote stage was called
C1_Witness ==
    /\ SingleReturned
    /\ ret.calls = <<"lookup", "find_best_match">>
    /\ Yield("find_best_match") # None
    /\ IsMapped(ret.after)

\* C2: when a remote call fails, resolve_single goes on to the next stage
\* (after a failed find_providers the dependency ends unmapped, or virtual if
\* the store knows the name as virtual) and returns Ok; resolve visits every
\* dependency of its work list and returns Ok.
C2_FailureDegrades ==
    /\ SingleReturned /\ InfoFailed =>
           ret.result = "Ok" /\ "find_providers" \in Range(ret.calls)
    /\ SingleReturned /\ ProvidersFailed =>
           /\ ret.result = "Ok"
           /\ ret.calls = Stages
           /\ ret.after.arch_name = None
           /\ ret.after.is_virtual =
                  (ret.before.is_virtual \/ IsVirtual(ret.before.debian_name))
    /\ ret.op = "resolve" => ret.result = "Ok" /\ ret.visited = ret.worklist

\* C2 witness: resolve returned Ok from a run of at least two dependencies in
\* which a remote call had failed
C2_Witness ==
    ret.op = "resolve" /\ ret.failed /\ ret.result = "Ok" /\ ret.worklist >= 2

\* a remote call recorded in ret failed on the HTTP status or on decoding
StatusOrDecodeFailure ==
    \/ InfoFailed /\ ret.info[1].msg \in {"status", "decode"}
    \/ ProvidersFailed /\ ret.providers[1].msg \in {"status", "decode"}

\* a remote result with its error discarded
Swallowed(recorded) ==
    IF recorded = None THEN Ok(<<>>)
    ELSE IF recorded[1].ok THEN recorded[1] ELSE Ok(<<>>)

\* C3 as stated: after an HTTP-status or decoding failure of a remote call,
\* resolve_single does not return Ok (the error is returned and aborts resolve).
C3_Original == SingleReturned /\ StatusOrDecodeFailure => ret.result # "Ok"

\* C3 as amended: a failure of a remote call (status and decoding failures
\* arrive as Network errors) is discarded by resolve_single, which returns Ok
\* and leaves the dependency as an empty answer of the failing stage would;
\* resolve returns Ok, so the caller does not see the failure.
C3_FailureDiscarded ==
    /\ SingleReturned /\ (InfoFailed \/ ProvidersFailed) =>
           /\ ret.result = "Ok"
           /\ StatusOrDecodeFailure =>
                  \/ InfoFailed /\ ret.info[1].kind = "Network"
                  \/ ProvidersFailed /\ ret.providers[1].kind = "Network"
           /\ ret.after = ResolveSingle(ret.before, ret.lookup[1], ret.fuzzy[1],
                                        Swallowed(ret.info), Swallowed(ret.providers)).dep
    /\ ret.op = "resolve" /\ ret.failed => ret.result = "Ok"

\* C3 witness: resolve_single returned Ok although the info request failed on decoding
C3_Witness ==
    SingleReturned /\ InfoFailed /\ ret.info[1].msg = "decode" /\ ret.result = "Ok"

\* every Dependency object of the metadata: the dependencies of all classes
\* and their alternatives
AllDependencies(md) ==
    UNION {{md[t][i] : i \in 1..Len(md[t])} \cup
           UNION {Range(md[t][i].alternatives) : i \in 1..Len(md[t])} : t \in DOMAIN md}

\* C4 as stated: every dependency of the metadata is mapped exactly when it
\* has a resolved name, and a mapped dependency has a confidence in [0.0, 1.0].
C4_Original ==
    \A d \in AllDependencies(metadata) :
        /\ IsMapped(d) <=> d.arch_name # None
        /\ IsMapped(d) => 0 <= d.confidence /\ d.confidence <= 100

\* C5 as stated: in a resolve call that follows a completed one, resolve_single
\* leaves every dependency the earlier call processed as it was.
C5_Original ==
    SingleReturned /\ ret.again /\ ret.dep_type # "Conflicts" => ret.after = ret.before

\* C5 as amended: only a mapped dependency is terminal. In a resolve call that
\* follows a completed one, resolve_single calls no stage for a mapped
\* dependency and leaves its resolved name, confidence and is_virtual flag
\* unchanged; an unmapped or virtual dependency goes through the pipeline again.
C5_MappedIsTerminal ==
    SingleReturned /\ ret.again =>
        IF IsMapped(ret.before)
        THEN ret.calls = <<>> /\ ret.after = ret.before
        ELSE ret.calls # <<>> /\ Head(ret.calls) = "lookup"

\* C5 witness: a later resolve call visited a dependency the earlier one had mapped
C5_Witness ==
    SingleReturned /\ ret.again /\ IsMapped(ret.before) /\ ret.dep_type = "Depends"

\* C6 as stated: after resolve returns, every dependency of every class, and
\* every alternative, whose foreign name has an exact entry in the Mapping
\* Store is mapped to that entry.
C6_Original ==
    ret.op = "resolve" /\ ret.result = "Ok" =>
        \A d \in AllDependencies(metadata) :
            d.debian_name \in DOMAIN mappings =>
                d.arch_name = Some(mappings[d.debian_name].arch_name)

-----------------------------------------------------------------------------
(* Properties of stats *)

\* the places of the top-level dependencies of all classes
TopLevel(md) == UNION {{<<t, i>> : i \in 1..Len(md[t])} : t \in DOMAIN md}

MappedPlaces(md) == {p \in TopLevel(md) : md[p[1]][p[2]].arch_name # None}

VirtualPlaces(md) ==
    {p \in TopLevel(md) : md[p[1]][p[2]].arch_name = None /\ md[p[1]][p[2]].is_virtual}

UnmappedPlaces(md) ==
    {p \in TopLevel(md) : md[p[1]][p[2]].arch_name = None /\ ~md[p[1]][p[2]].is_virtual}

RECURSIVE ConfidenceOver(_, _)
ConfidenceOver(md, places) ==
    IF places = {} THEN 0
    ELSE LET p == CHOOSE q \in places : TRUE
         IN  md[p[1]][p[2]].confidence + ConfidenceOver(md, places \ {p})

\* how often a name occurs in a sequence of names
Occurrences(names, name) == Cardinality({i \in 1..Len(names) : names[i] = name})

\* C10: stats counts every top-level dependency of every class once: as mapped
\* iff it has a resolved name, as virtual iff it has none and is_virtual, else
\* as unmapped with its name in unmapped_names; total is the sum of the three;
\* success_rate is (mapped + virtual) / total, and 1.0 when total is 0; the
\* average confidence is the mapped dependencies' confidence over their number.
C10_StatsPartition ==
    ret.op = "stats" =>
        LET st == ret.stats IN
        /\ st.total = Cardinality(TopLevel(metadata))
        /\ st.mapped = Cardinality(MappedPlaces(metadata))
        /\ st.virtual_packages = Cardinality(VirtualPlaces(metadata))
        /\ st.unmapped = Cardinality(UnmappedPlaces(metadata))
        /\ st.total = st.mapped + st.virtual_packages + st.unmapped
        /\ Len(st.unmapped_names) = st.unmapped
        /\ \A name \in Range(st.unmapped_names)
                    \cup {metadata[p[1]][p[2]].debian_name : p \in UnmappedPlaces(metadata)} :
               Occurrences(st.unmapped_names, name) =
                   Cardinality({p \in UnmappedPlaces(metadata) :
                                   metadata[p[1]][p[2]].debian_name = name})
        /\ ret.success_rate =
               IF Cardinality(TopLevel(metadata)) = 0 THEN Ratio(1, 1)
               ELSE Ratio(Cardinality(MappedPlaces(metadata))
                              + Cardinality(VirtualPlaces(metadata)),
                          Cardinality(TopLevel(metadata)))
        /\ st.avg_confidence =
               IF MappedPlaces(metadata) = {} THEN Ratio(0, 1)
               ELSE Ratio(ConfidenceOver(metadata, MappedPlaces(metadata)),
                          Cardinality(MappedPlaces(metadata)))

\* C10 witness: stats of a package with a mapped dependency that is also
\* flagged virtual, and a dependency that is virtual only
C10_Witness ==
    /\ ret.op = "stats"
    /\ ret.stats.mapped >= 1
    /\ ret.stats.virtual_packages >= 1
    /\ \E p \in MappedPlaces(metadata) : metadata[p[1]][p[2]].is_virtual

-----------------------------------------------------------------------------
(* Properties of handle_java_conflicts *)

InJre(d) == d.arch_name # None /\ MatchesAny(d.arch_name[1], JavaJrePatterns)
InJdk(d) == d.arch_name # None /\ MatchesAny(d.arch_name[1], JavaJdkPatterns)

\* the top-level dependencies of all classes
TopLevelDependencies(md) == UNION {Range(md[t]) : t \in DOMAIN md}

\* the metadata has a dependency of each family
HasBothFamilies(md) ==
    /\ \E d \in TopLevelDependencies(md) : InJre(d)
    /\ \E d \in TopLevelDependencies(md) : InJdk(d)

\* the five strategies of the specification
FiveStrategies == {"prefer-jdk", "prefer-jre", "jre", "jdk", "prompt"}

\* the family the strategy does not prefer
NonPreferred(strategy, d) ==
    IF strategy \in {"prefer-jre", "jre"} THEN InJdk(d) ELSE InJre(d)

IsPrefix(a, b) == Len(a) <= Len(b) /\ SubSeq(b, 1, Len(a)) = a

\* ret records a call of handle_java_conflicts that found the handling
\* enabled, one of the five strategies, and both families in the metadata
ConflictHandled ==
    /\ ret.op = "handle_java_conflicts"
    /\ ret.config.add_java_conflicts
    /\ ret.config.conflict_strategy \in FiveStrategies
    /\ HasBothFamilies(ret.before)

\* the effective names of the entries of the Conflicts class
ConflictEntries(md) ==
    IF "Conflicts" \in DOMAIN md
    THEN [i \in 1..Len(md["Conflicts"]) |-> EffectiveName(md["Conflicts"][i])]
    ELSE <<>>

\* C7 as stated: when both families are present, every class keeps exactly its
\* dependencies outside the non-preferred family, in order (the Conflicts
\* class keeps them ahead of the entries conflict handling appends).
C7_Original ==
    ConflictHandled =>
        \A t \in DOMAIN ret.before :
            LET Kept(d) == ~NonPreferred(ret.config.conflict_strategy, d)
                expected == SelectSeq(ret.before[t], Kept)
            IN  IF t = "Conflicts" THEN IsPrefix(expected, metadata[t])
                ELSE metadata[t] = expected

\* C8 as stated: the resolved name of every dependency of the non-preferred
\* family is in Conflicts afterwards, and no entry that conflict handling
\* added to Conflicts carries the resolved name of a dependency that is kept.
C8_Original ==
    ConflictHandled =>
        /\ \A d \in TopLevelDependencies(ret.before) :
               NonPreferred(ret.config.conflict_strategy, d) =>
                   d.arch_name[1] \in Range(ConflictEntries(metadata))
        /\ \A e \in Range(metadata["Conflicts"]) \ TopLevelDependencies(ret.before) :
               \A d \in TopLevelDependencies(metadata) :
                   d.arch_name # None => d.arch_name[1] # EffectiveName(e)

\* C9 as stated: a second run of handle_java_conflicts changes nothing, and
\* when the Conflicts class held no name twice before the first run, the
\* resolved name of every dependency of the non-preferred family occurs
\* exactly once in it afterwards.
C9_Original ==
    ret.op = "handle_java_conflicts" =>
        /\ \A order \in Perms(DOMAIN metadata) :
               HandleJavaConflicts(metadata, ret.config, order) = metadata
        /\ /\ ConflictHandled
           /\ \A name \in Range(ConflictEntries(ret.before)) :
                  Occurrences(ConflictEntries(ret.before), name) = 1
           => \A d \in TopLevelDependencies(ret.before) :
                  NonPreferred(ret.config.conflict_strategy, d) =>
                      Occurrences(ConflictEntries(metadata), d.arch_name[1]) = 1

-----------------------------------------------------------------------------
(* The Mapping Store on its own: construction, add_mapping and lookup *)

\* no persisted file: nothing is merged
NoEntries == [n \in {} |-> Mapping("", 0)]

\* the contents mappings.json may have at construction: absent, an entry
\* whose key a builtin has, an entry with a new key
CustomMappings ==
    {NoEntries, ("libc6" :> Mapping("musl", 70)), ("awk" :> Mapping("gawk", 90))}

\* the contents arch_packages.json may have at construction
StoreCaches ==
    {[n \in names |-> [provides |-> <<"awk">>]] : names \in SUBSET {"gawk", "mawk"}}

\* the names looked up: builtin keys (mawk is also a target-repository
\* package), a target-repository package, a provided name, an unknown name
LookupNames == {"libc6", "libssl3", "mawk", "gawk", "awk", "nothing"}

InitStore ==
    /\ NoBuilder
    /\ NoMapper
    /\ \E custom \in CustomMappings :
          /\ mappings = LoadCachedData(BuiltinMappings, custom)
          /\ ret = [op |-> "new", custom |-> custom]
    /\ arch_packages \in StoreCaches
    /\ metadata = NewMetadata
    /\ pc = "idle"
    /\ cur = [k |-> 0, failed |-> FALSE, again |-> FALSE]

\* PackageDatabase::lookup is called
LookupCall ==
    /\ pc = "idle"
    /\ \E name \in LookupNames :
       \E result \in Lookup(mappings, arch_packages, name) :
          ret' = [op |-> "lookup", name |-> name, result |-> result]
    /\ UNCHANGED <<mappings, arch_packages, metadata, pc, cur>>
    /\ UNCHANGED mapper_vars
    /\ UNCHANGED builder_vars

NextStore == AddMapping \/ LookupCall

SpecStore == InitStore /\ [][NextStore]_vars

\* the cached packages that list the name in their provides
ProvidersOf(name) ==
    {n \in DOMAIN arch_packages : \E i \in 1..Len(arch_packages[n].provides) :
                                      arch_packages[n].provides[i] = name}

\* C11: lookup(name) returns the entry of the merged mapping table if there is
\* one (persisted entries and add_mapping entries replace builtins of the same
\* key; with builtins only, libc6 is (glibc, 1.0) and libssl3 is (openssl,
\* 1.0)); else (name, 1.0) if name is a key of the target-repository cache;
\* else a cached package that provides name, at 0.9; else None.
C11_LookupPriority ==
    /\ ret.op = "new" =>
           /\ \A n \in DOMAIN ret.custom : mappings[n] = ret.custom[n]
           /\ \A n \in DOMAIN BuiltinMappings \ DOMAIN ret.custom :
                  mappings[n] = BuiltinMappings[n]
    /\ ret.op = "add_mapping" =>
           mappings[ret.debian] = Mapping(ret.arch, ret.confidence)
    /\ ret.op = "lookup" =>
           /\ IF ret.name \in DOMAIN mappings
              THEN ret.result = Some(mappings[ret.name])
              ELSE IF ret.name \in DOMAIN arch_packages
              THEN ret.result = Some(Mapping(ret.name, 100))
              ELSE IF ProvidersOf(ret.name) # {}
              THEN \E n \in ProvidersOf(ret.name) : ret.result = Some(Mapping(n, 90))
              ELSE ret.result = None
           /\ mappings = BuiltinMappings /\ ret.name = "libc6" =>
                  ret.result = Some(Mapping("glibc", 100))
           /\ mappings = BuiltinMappings /\ ret.name = "libssl3" =>
                  ret.result = Some(Mapping("openssl", 100))

\* C11 witness: a name that is a builtin key and also a target-repository
\* package was looked up, and the mapping table's entry was returned
C11_Witness ==
    /\ ret.op = "lookup"
    /\ ret.name = "mawk"
    /\ "mawk" \in DOMAIN arch_packages
    /\ ret.result = Some(Mapping("gawk", 80))

-----------------------------------------------------------------------------
(* The Fuzzy Matcher on its own: normalize_name and find_best_match *)

\* the package names normalize_name is applied to: a prefix, a stem, a
\* version number and a suffix, each possibly absent
NamePrefixes == {"", "lib", "python3-", "Perl-", "node-"}
NameStems == {"foo", "libvirt", "gtk_x", "z-lib"}
NameVersions == {"", "6", "12"}
NameSuffixes == {"", "-dev", "-doc"}

PackageNames ==
    {p \o s \o v \o x : p \in NamePrefixes, s \in NameStems,
                        v \in NameVersions, x \in NameSuffixes}

\* FuzzyMatcher::normalize_name is called, and called again on its result
NormalizeCall ==
    /\ pc = "call"
    /\ cur.op = "normalize_name"
    /\ \E result \in {NormalizeName(cur.name)} :
          ret' = [op |-> "normalize_name", name |-> cur.name, result |-> result,
                  again |-> NormalizeName(result)]
    /\ pc' = "done"
    /\ UNCHANGED <<mappings, arch_packages, metadata, cur>>
    /\ UNCHANGED mapper_vars
    /\ UNCHANGED builder_vars

\* C12 as stated: normalizing a normalized name changes nothing.
C12_Original == ret.op = "normalize_name" => ret.again = ret.result

\* the number of Arch package names find_best_match scans
MaxCandidates == 2

\* the names in the Arch package cache, and the orders its keys() may yield
CandidateNames == {"foo", "bar", "gawk"}
CandidateLists == InjSeqs(CandidateNames, MaxCandidates)

\* the values calculate_score may take, in hundredths, on both sides of
\* min_score and of the heuristic scores
FuzzyScores == {50, 60, 70, 80}

\* the Debian names looked up: one for each branch of heuristic_match and
\* one no heuristic applies to
FuzzyNames == {"libfoo2", "python3-bar", "libfoo-dev", "foo-dev", "awk"}

\* the minimum scores a matcher is built with: that of FuzzyMatcher::new()
\* and one set with with_min_score above some heuristic scores
MinScores == {MinScore, HighMinScore}

\* the calls made on a matcher
FuzzyCalls ==
    {[op |-> "normalize_name", name |-> name] : name \in PackageNames}
    \cup {[op |-> "find_best_match", min_score |-> min_score, name |-> name,
           candidates |-> candidates, score |-> score] :
             min_score \in MinScores,
             name \in FuzzyNames, candidates \in CandidateLists,
             score \in [CandidateNames -> FuzzyScores]}

InitFuzzy ==
    /\ NoBuilder
    /\ NoMapper
    /\ mappings = BuiltinMappings
    /\ arch_packages = <<>>
    /\ metadata = NewMetadata
    /\ pc = "call"
    /\ cur \in FuzzyCalls
    /\ ret = [op |-> "new"]

\* FuzzyMatcher::find_best_match
FindBestMatchCall ==
    /\ pc = "call"
    /\ cur.op = "find_best_match"
    /\ \E result \in {FindBestMatch(cur.min_score, cur.name, cur.candidates,
                                     cur.score)} :
          ret' = [op |-> "find_best_match", min_score |-> cur.min_score,
                  name |-> cur.name,
                  candidates |-> cur.candidates, score |-> cur.score,
                  result |-> result]
    /\ pc' = "done"
    /\ UNCHANGED <<mappings, arch_packages, metadata, cur>>
    /\ UNCHANGED mapper_vars
    /\ UNCHANGED builder_vars

NextFuzzy == NormalizeCall \/ FindBestMatchCall

SpecFuzzy == InitFuzzy /\ [][NextFuzzy]_vars

\* the positions of the candidates whose score reaches the minimum
Eligible(min_score, candidates, score) ==
    {i \in 1..Len(candidates) : score[candidates[i]] >= min_score}

\* the first position holding the maximum score among the eligible ones
FirstMaximum(min_score, candidates, score) ==
    CHOOSE i \in Eligible(min_score, candidates, score) :
        /\ \A j \in Eligible(min_score, candidates, score) :
              score[candidates[j]] <= score[candidates[i]]
        /\ \A j \in Eligible(min_score, candidates, score) :
              score[candidates[j]] = score[candidates[i]] => i <= j

\* the scored result the claim describes
Scored(min_score, candidates, score) ==
    IF Eligible(min_score, candidates, score) = {} THEN None
    ELSE LET c == candidates[FirstMaximum(min_score, candidates, score)]
         IN  Some(Match(c, score[c]))

\* C13: find_best_match returns the first maximum-scoring candidate among
\* those reaching the minimum score, unless the heuristic result scores
\* strictly higher or no candidate reached the minimum; with neither a scored
\* nor a heuristic result it returns None.
C13_BestMatch ==
    ret.op = "find_best_match" =>
        LET scored == Scored(ret.min_score, ret.candidates, ret.score)
            h == HeuristicMatch(ret.name)
        IN  /\ (h = None /\ scored = None) => ret.result = None
            /\ (h = None /\ scored # None) => ret.result = scored
            /\ (h # None /\ scored = None) => ret.result = h
            /\ (h # None /\ scored # None) =>
                  ret.result = IF h[1].score > scored[1].score THEN h ELSE scored

\* two candidates tie at the score the heuristic also gives: the first
\* candidate is returned
C13_Witness ==
    /\ ret.op = "find_best_match"
    /\ ret.name = "libfoo2"
    /\ Len(ret.candidates) = 2
    /\ ret.score[ret.candidates[1]] = 70
    /\ ret.score[ret.candidates[2]] = 70
    /\ ret.result = Some(Match(ret.candidates[1], 70))

-----------------------------------------------------------------------------
(* Rule Mapper: src/src/resolver/mapper.rs *)

(* The patterns of the rules are anchored concatenations of literals and of
   repeated character classes. A pattern is a sequence of tokens:
     Lit(s)                 the literal s
     Plus(chars, lazy, cap) one or more characters of chars ("" is '.'),
                            lazy for +?, cap when the token is a group.
   A replacement is a sequence of literals Txt(s) and group references
   Grp(n), n >= 1. *)
Lit(s) == [t |-> "lit", s |-> s]
Plus(chars, lazy, cap) == [t |-> "plus", chars |-> chars, lazy |-> lazy, cap |-> cap]
Txt(s) == [g |-> 0, s |-> s]
Grp(n) == [g |-> n, s |-> ""]

Digits == "0123456789"
DigitsAndDot == "0123456789."

\* the length of the longest prefix of s made of characters of the class
RECURSIVE ClassRun(_, _)
ClassRun(chars, s) ==
    IF Len(s) = 0 THEN 0
    ELSE IF chars = "" \/ Contains(chars, SubSeq(s, 1, 1))
    THEN 1 + ClassRun(chars, SubSeq(s, 2, Len(s)))
    ELSE 0

\* the captures of the match of ^tokens$ on s the regex engine reports
\* (None when there is none): a repetition tries its lengths longest first,
\* a lazy one shortest first, and keeps the first that lets the rest match
RECURSIVE Captures(_, _)
RECURSIVE TryLengths(_, _, _, _, _)
Captures(tokens, s) ==
    IF tokens = <<>> THEN (IF s = "" THEN Some(<<>>) ELSE None)
    ELSE LET tok == Head(tokens)
         IN  IF tok.t = "lit"
             THEN IF StartsWith(s, tok.s)
                  THEN Captures(Tail(tokens), SubSeq(s, Len(tok.s) + 1, Len(s)))
                  ELSE None
             ELSE LET run == ClassRun(tok.chars, s)
                  IN  IF run = 0 THEN None
                      ELSE TryLengths(tokens, s, IF tok.lazy THEN 1 ELSE run,
                                      IF tok.lazy THEN 1 ELSE -1, run)

TryLengths(tokens, s, n, step, run) ==
    IF n < 1 \/ n > run THEN None
    ELSE LET rest == Captures(Tail(tokens), SubSeq(s, n + 1, Len(s)))
         IN  IF rest # None
             THEN Some((IF Head(tokens).cap THEN <<SubSeq(s, 1, n)>> ELSE <<>>)
                       \o rest[1])
             ELSE TryLengths(tokens, s, n + step, step, run)

\* Regex::is_match
IsMatch(pattern, s) == Captures(pattern, s) # None

\* the expansion of a replacement template with the captured groups
RECURSIVE Expand(_, _)
Expand(replacement, groups) ==
    IF replacement = <<>> THEN ""
    ELSE (IF Head(replacement).g > 0
          THEN groups[Head(replacement).g] ELSE Head(replacement).s)
         \o Expand(Tail(replacement), groups)

\* Regex::replace on an anchored pattern: the whole name is the match
Replace(pattern, s, replacement) ==
    IF IsMatch(pattern, s) THEN Expand(replacement, Captures(pattern, s)[1]) ELSE s

\* struct MappingRule
MappingRule(name, pattern, replacement, confidence) ==
    [name |-> name, pattern |-> pattern, replacement |-> replacement,
     confidence |-> confidence]

\* PackageMapper::load_default_rules: the rules in the order they are pushed
DefaultRules ==
    << MappingRule("lib-version",
           <<Lit("lib"), Plus("", TRUE, TRUE), Plus(Digits, FALSE, TRUE)>>,
           <<Txt("lib"), Grp(1)>>, 80),
       MappingRule("python3",
           <<Lit("python3-"), Plus("", FALSE, TRUE)>>, <<Txt("python-"), Grp(1)>>, 90),
       MappingRule("perl-lib",
           <<Lit("lib"), Plus("", FALSE, TRUE), Lit("-perl")>>, <<Txt("perl-"), Grp(1)>>, 85),
       MappingRule("ruby",
           <<Lit("ruby-"), Plus("", FALSE, TRUE)>>, <<Txt("ruby-"), Grp(1)>>, 90),
       MappingRule("node",
           <<Lit("node-"), Plus("", FALSE, TRUE)>>, <<Txt("nodejs-"), Grp(1)>>, 85),
       MappingRule("dev-files",
           <<Lit("lib"), Plus("", FALSE, TRUE), Lit("-dev")>>, <<Grp(1)>>, 60),
       MappingRule("debug",
           <<Plus("", FALSE, TRUE), Lit("-dbg")>>, <<Grp(1), Txt("-debug")>>, 70),
       MappingRule("docs",
           <<Plus("", FALSE, TRUE), Lit("-doc")>>, <<Grp(1), Txt("-docs")>>, 80),
       MappingRule("gtk-theme",
           <<Plus("", FALSE, TRUE), Lit("-theme-"), Plus("", FALSE, TRUE)>>,
           <<Grp(1), Txt("-"), Grp(2), Txt("-theme")>>, 75),
       MappingRule("fonts",
           <<Lit("fonts-"), Plus("", FALSE, TRUE)>>, <<Txt("ttf-"), Grp(1)>>, 70),
       MappingRule("gstreamer",
           <<Lit("gstreamer1.0-"), Plus("", FALSE, TRUE)>>, <<Txt("gst-plugins-"), Grp(1)>>, 85),
       MappingRule("typelib",
           <<Lit("gir1.2-"), Plus("", FALSE, TRUE), Lit("-"),
             Plus(DigitsAndDot, FALSE, FALSE)>>, <<Grp(1)>>, 60),
       MappingRule("qt5-lib",
           <<Lit("libqt5"), Plus("", FALSE, TRUE), Plus(Digits, FALSE, FALSE)>>,
           <<Txt("qt5-"), Grp(1)>>, 70),
       MappingRule("qt6-lib",
           <<Lit("libqt6"), Plus("", FALSE, TRUE), Plus(Digits, FALSE, FALSE)>>,
           <<Txt("qt6-"), Grp(1)>>, 70),
       MappingRule("boost",
           <<Lit("libboost-"), Plus("", TRUE, TRUE), Plus(DigitsAndDot, FALSE, FALSE)>>,
           <<Txt("boost-libs")>>, 75),
       MappingRule("icu",
           <<Lit("libicu"), Plus("", FALSE, TRUE), Plus(Digits, FALSE, FALSE)>>,
           <<Txt("icu")>>, 80),
       MappingRule("llvm",
           <<Lit("libllvm"), Plus(Digits, FALSE, FALSE)>>, <<Txt("llvm-libs")>>, 90),
       MappingRule("clang",
           <<Lit("libclang"), Plus(Digits, FALSE, FALSE), Lit("-"),
             Plus(Digits, FALSE, FALSE)>>, <<Txt("clang")>>, 90) >>

\* defect: the scan returns the last matching rule instead of the first
RECURSIVE LastMatch(_, _)
LastMatch(rule_list, debian_name) ==
    IF rule_list = <<>> THEN None
    ELSE IF IsMatch(rule_list[Len(rule_list)].pattern, debian_name)
    THEN Some(rule_list[Len(rule_list)])
    ELSE LastMatch(SubSeq(rule_list, 1, Len(rule_list) - 1), debian_name)

\* the scan of apply_rules: the first rule of the list whose pattern matches
RECURSIVE FirstMatch(_, _)
FirstMatch(rule_list, debian_name) ==
    IF rule_list = <<>> THEN None
    ELSE IF IsMatch(Head(rule_list).pattern, debian_name)
    THEN Some(Head(rule_list))
    ELSE FirstMatch(Tail(rule_list), debian_name)

\* PackageMapper::apply_rules: the value returned and the cache it leaves
ApplyRules(rule_list, cached, debian_name) ==
    IF debian_name \in DOMAIN cached
    THEN [result |->
              IF cached[debian_name] # None /\ FirstMatch(rule_list, debian_name) # None
              THEN Some(<<cached[debian_name][1],
                          FirstMatch(rule_list, debian_name)[1].confidence>>)
              ELSE None,
          cache |-> cached]
    ELSE LET rule == FirstMatch(rule_list, debian_name)
         IN  IF rule # None
             THEN LET mapped == Replace(rule[1].pattern, debian_name, rule[1].replacement)
                  IN  [result |-> Some(<<mapped, rule[1].confidence>>),
                       cache |-> (debian_name :> Some(mapped)) @@ cached]
             ELSE [result |-> None, cache |-> (debian_name :> None) @@ cached]

\* defect: add_rule pushes the rule and leaves the cache as it is
AddRuleKeepsCache(rule_list, cached, rule) ==
    IF rule.pattern = None
    THEN [result |-> Err("Regex", rule.name), rules |-> rule_list, cache |-> cached]
    ELSE [result |-> Ok(<<>>), cache |-> cached,
          rules |-> Append(rule_list, [rule EXCEPT !.pattern = rule.pattern[1]])]

\* PackageMapper::add_rule. The pattern argument is None when Regex::new
\* rejects it: the error is returned before anything is changed.
AddRule(rule_list, cached, rule) ==
    IF rule.pattern = None
    THEN [result |-> Err("Regex", rule.name), rules |-> rule_list, cache |-> cached]
    ELSE [result |-> Ok(<<>>), cache |-> <<>>,
          rules |-> Append(rule_list, [rule EXCEPT !.pattern = rule.pattern[1]])]

\* PackageMapper::simple_transform
SimpleTransform(name) ==
    LET name_lower == ToLowercase(name)
    IN  IF /\ ~Contains(name_lower, "debian")
           /\ ~Contains(name_lower, "ubuntu")
           /\ ~StartsWith(name_lower, "lib")
        THEN Some(<<name_lower, 50>>)
        ELSE IF StartsWith(name_lower, "lib")
        THEN LET base == StripTrailingDigits(SubSeq(name_lower, 4, Len(name_lower)))
             IN  IF base # "" THEN Some(<<"lib" \o base, 55>>) ELSE None
        ELSE None

\* PackageMapper::suggest_arch_name on the name of the dependency: the value
\* returned and the cache apply_rules leaves
SuggestArchName(rule_list, cached, debian_name) ==
    LET applied == ApplyRules(rule_list, cached, debian_name)
    IN  IF applied.result # None THEN applied
        ELSE [result |-> SimpleTransform(debian_name), cache |-> applied.cache]

\* the number of rules add_rule registers
MaxAddedRules == 2

\* the arguments of add_rule: a rule for a name no default rule matches, a
\* rule for the names the python3 rule matches, and a pattern that does not
\* compile
AddRuleArgs ==
    {MappingRule("awk", Some(<<Lit("awk")>>), <<Txt("gawk")>>, 95),
     MappingRule("py", Some(<<Lit("python3-"), Plus("", FALSE, TRUE)>>),
                 <<Txt("py-"), Grp(1)>>, 50),
     MappingRule("broken", None, <<Txt("x")>>, 50)}

\* the names apply_rules is called with
MapperNames == {"python3-numpy", "libllvm14", "awk", "libssl-dev"}

\* PackageMapper::new
InitMapper ==
    /\ NoBuilder
    /\ rules = DefaultRules
    /\ cache = <<>>
    /\ mappings = BuiltinMappings
    /\ arch_packages = <<>>
    /\ metadata = NewMetadata
    /\ pc = "idle"
    /\ cur = [k |-> 0, failed |-> FALSE, again |-> FALSE]
    /\ ret = [op |-> "new"]

\* PackageMapper::apply_rules is called
ApplyRulesCall ==
    /\ \E debian_name \in MapperNames :
       \E r \in {ApplyRules(rules, cache, debian_name)} :
          /\ cache' = r.cache
          /\ ret' = [op |-> "apply_rules", name |-> debian_name,
                     result |-> r.result, hit |-> debian_name \in DOMAIN cache]
    /\ UNCHANGED <<mappings, arch_packages, metadata, pc, cur, rules>>
    /\ UNCHANGED builder_vars

\* the names suggest_arch_name is called with besides those above: names no
\* default rule matches, with and without the library prefix, capitals and
\* the name of a distribution
SuggestNames == {"libfoo", "Awk", "debian-keyring", "lib"}

\* PackageMapper::suggest_arch_name is called
SuggestArchNameCall ==
    /\ \E debian_name \in MapperNames \cup SuggestNames :
       \E r \in {SuggestArchName(rules, cache, debian_name)} :
          /\ cache' = r.cache
          /\ ret' = [op |-> "suggest_arch_name", name |-> debian_name,
                     result |-> r.result, hit |-> debian_name \in DOMAIN cache]
    /\ UNCHANGED <<mappings, arch_packages, metadata, pc, cur, rules>>
    /\ UNCHANGED builder_vars

\* PackageMapper::add_rule is called
AddRuleCall ==
    /\ Len(rules) < Len(DefaultRules) + MaxAddedRules
    /\ \E rule \in AddRuleArgs :
       \E r \in {AddRule(rules, cache, rule)} :
          /\ rules' = r.rules
          /\ cache' = r.cache
          /\ ret' = [op |-> "add_rule", name |-> rule.name, result |-> r.result,
                     dropped |-> DOMAIN cache \ DOMAIN r.cache]
    /\ UNCHANGED <<mappings, arch_packages, metadata, pc, cur>>
    /\ UNCHANGED builder_vars

\* PackageMapper::clear_cache is called
ClearCacheCall ==
    /\ cache' = <<>>
    /\ ret' = [op |-> "clear_cache", dropped |-> DOMAIN cache]
    /\ UNCHANGED <<mappings, arch_packages, metadata, pc, cur, rules>>
    /\ UNCHANGED builder_vars

NextMapper == ApplyRulesCall \/ SuggestArchNameCall \/ AddRuleCall \/ ClearCacheCall

SpecMapper == InitMapper /\ [][NextMapper]_vars

\* the positions of the rules whose pattern matches the name
MatchingRules(debian_name) ==
    {i \in 1..Len(rules) : IsMatch(rules[i].pattern, debian_name)}

\* C14: apply_rules returns the transformed name and the confidence of the
\* matching rule registered first, None when no rule matches; the default
\* rules come first in the list, in their order, whatever add_rule added; and
\* python3-numpy maps to python-numpy at 0.9.
C14_FirstRuleWins ==
    /\ Len(rules) >= Len(DefaultRules)
    /\ SubSeq(rules, 1, Len(DefaultRules)) = DefaultRules
    /\ ret.op = "apply_rules" =>
          /\ MatchingRules(ret.name) = {} => ret.result = None
          /\ \A i \in MatchingRules(ret.name) :
                (\A j \in MatchingRules(ret.name) : i <= j) =>
                    ret.result = Some(<<Replace(rules[i].pattern, ret.name,
                                                rules[i].replacement),
                                        rules[i].confidence>>)
          /\ ret.name = "python3-numpy" => ret.result = Some(<<"python-numpy", 90>>)

\* python3-numpy is mapped by the default rule although a rule added later
\* matches it too
C14_Witness ==
    /\ ret.op = "apply_rules"
    /\ ret.name = "python3-numpy"
    /\ \E i \in MatchingRules("python3-numpy") : i > Len(DefaultRules)
    /\ ret.result = Some(<<"python-numpy", 90>>)

\* C15: whatever calls came before, apply_rules returns what it returns on an
\* empty cache with the current rules; the cache holds, for each name, the
\* outcome of that scan; and a successful add_rule leaves no entry behind.
C15_CacheTransparent ==
    /\ ret.op = "apply_rules" =>
          ret.result = ApplyRules(rules, <<>>, ret.name).result
    /\ \A n \in DOMAIN cache : cache[n] = ApplyRules(rules, <<>>, n).cache[n]
    /\ (ret.op = "add_rule" /\ ret.result.ok) => cache = <<>>

\* awk, which no default rule matches, is answered from the cache with the
\* result of the rule added for it
C15_Witness ==
    /\ ret.op = "apply_rules"
    /\ ret.name = "awk"
    /\ ret.hit
    /\ ret.result = Some(<<"gawk", 95>>)

-----------------------------------------------------------------------------
(* The Remote Repository Client on its own: search, info and find_providers *)

\* the calls made on an AurClient, each with the outcome of its HTTP exchange
RemoteCalls ==
    {[op |-> "search", arg |-> q, resp |-> resp] :
        q \in DebianNames, resp \in RemoteResponses}
    \cup {[op |-> "info", arg |-> names, resp |-> resp] :
        names \in SeqsUpTo(DebianNames, 1), resp \in RemoteResponses}
    \cup {[op |-> "find_providers", arg |-> c, resp |-> resp] :
        c \in DebianNames, resp \in RemoteResponses}

InitRemote ==
    /\ NoBuilder
    /\ NoMapper
    /\ mappings = BuiltinMappings
    /\ arch_packages = <<>>
    /\ metadata = NewMetadata
    /\ pc = "call"
    /\ cur \in RemoteCalls
    /\ ret = [op |-> "new"]

\* what a call on the client leaves in ret
Returned(result) ==
    [op |-> cur.op, arg |-> cur.arg, cause |-> cur.resp.cause, result |-> result]

\* AurClient::search is called
SearchCall ==
    /\ pc = "call"
    /\ cur.op = "search"
    /\ ret' = Returned(Search(cur.arg, cur.resp))
    /\ pc' = "done"
    /\ UNCHANGED <<mappings, arch_packages, metadata, cur>>
    /\ UNCHANGED mapper_vars
    /\ UNCHANGED builder_vars

\* AurClient::info is called
InfoCall ==
    /\ pc = "call"
    /\ cur.op = "info"
    /\ ret' = Returned(Info(cur.arg, cur.resp))
    /\ pc' = "done"
    /\ UNCHANGED <<mappings, arch_packages, metadata, cur>>
    /\ UNCHANGED mapper_vars
    /\ UNCHANGED builder_vars

\* AurClient::find_providers is called
FindProvidersCall ==
    /\ pc = "call"
    /\ cur.op = "find_providers"
    /\ ret' = Returned(FindProviders(cur.arg, cur.resp))
    /\ pc' = "done"
    /\ UNCHANGED <<mappings, arch_packages, metadata, cur>>
    /\ UNCHANGED mapper_vars
    /\ UNCHANGED builder_vars

NextRemote == SearchCall \/ InfoCall \/ FindProvidersCall

SpecRemote == InitRemote /\ [][NextRemote]_vars

\* the three failure causes the claim tells apart
FailureCauses == {"transport", "decode", "service"}

\* the error kind make_request gives a failure cause
KindOf(cause) == MakeRequest([cause |-> cause, results |-> <<>>]).kind

\* C16 as stated: a call that failed for one of the three causes returns an
\* error kind that neither of the other two causes is given.
C16_Original ==
    (ret.op \in {"search", "info", "find_providers"}
        /\ ~ret.result.ok /\ ret.cause \in FailureCauses) =>
            \A other \in FailureCauses \ {ret.cause} : KindOf(other) # ret.result.kind

-----------------------------------------------------------------------------
(* Package Builder: src/src/converter/builder.rs, and the manifest text of
   src/src/models/package.rs *)

\* PackageMetadata::get_deps
GetDeps(md, dep_type) == IF dep_type \in DOMAIN md THEN md[dep_type] ELSE <<>>

\* a "key = value" line of a manifest
PkgLine(key, value) == [key |-> key, value |-> value]

\* the lines to_pkginfo writes before the dependencies, for the package
\* foo 1.0-1 (x86_64) with a url and a maintainer
HeaderLines ==
    << PkgLine("pkgname", "foo"), PkgLine("pkgver", "1.0-1"),
       PkgLine("pkgdesc", "a package"), PkgLine("url", "https://foo.example"),
       PkgLine("builddate", "now"), PkgLine("packager", "someone"),
       PkgLine("size", "1024"), PkgLine("arch", "x86_64"),
       PkgLine("license", "custom") >>

\* one loop of to_pkginfo: a line for each dependency of the class
DepLines(md, dep_type, key) ==
    [i \in 1..Len(GetDeps(md, dep_type)) |->
        PkgLine(key, ToArchString(GetDeps(md, dep_type)[i]))]

\* PackageMetadata::to_pkginfo: the lines it joins
ToPkginfo(md) ==
    HeaderLines
    \o DepLines(md, "Depends", "depend") \o DepLines(md, "PreDepends", "depend")
    \o DepLines(md, "Recommends", "optdepend") \o DepLines(md, "Suggests", "optdepend")
    \o DepLines(md, "Conflicts", "conflict") \o DepLines(md, "Breaks", "conflict")
    \o DepLines(md, "Replaces", "replaces")
    \o DepLines(md, "Provides", "provides")

\* an entry of a directory tree: a regular file, a directory or a symlink
Entry(type, content) == [type |-> type, content |-> content]

\* the manifest names add_package_files and create_mtree treat specially
ManifestPrefixes == <<".BUILDINFO", ".PKGINFO", ".MTREE", ".INSTALL">>

\* name.starts_with(".BUILDINFO") || ... || name.starts_with(".INSTALL")
HasManifestPrefix(name) ==
    \E i \in 1..Len(ManifestPrefixes) : StartsWith(name, ManifestPrefixes[i])

\* the directory a path lies in ("" for the root) and its file name
Parent(path) == IF RFind(path, "/") = 0 THEN "" ELSE SubSeq(path, 1, RFind(path, "/") - 1)
FileName(path) == SubSeq(path, RFind(path, "/") + 1, Len(path))

\* the orders in which the elements of a set can be listed
RECURSIVE Orders(_)
Orders(S) ==
    IF S = {} THEN {<<>>}
    ELSE UNION {{<<x>> \o rest : rest \in Orders(S \ {x})} : x \in S}

\* walkdir::WalkDir over a tree, below the directory dir: each directory
\* yields its entries in the order the file system lists them, which is not
\* specified, and an entry that is a directory is followed by its own walk.
\* With keep, the filter_entry predicate, an entry that fails it is neither
\* yielded nor descended into.
RECURSIVE WalkBelow(_, _, _)
RECURSIVE WalkInOrder(_, _, _)
WalkBelow(tree, dir, keep) ==
    UNION {WalkInOrder(tree, order, keep) :
             order \in Orders({p \in DOMAIN tree : Parent(p) = dir /\ keep[p]})}

WalkInOrder(tree, order, keep) ==
    IF order = <<>> THEN {<<>>}
    ELSE UNION {{<<Head(order)>> \o below \o rest :
                    rest \in WalkInOrder(tree, Tail(order), keep)} :
                  below \in IF tree[Head(order)].type = "dir"
                            THEN WalkBelow(tree, Head(order), keep)
                            ELSE {<<>>}}

\* WalkDir::new(root) without a filter, the root itself left out
Walks(tree) == WalkBelow(tree, "", [p \in DOMAIN tree |-> TRUE])

\* PackageConverter::generate_buildinfo for the package of HeaderLines: the
\* lines it joins, now the value of chrono::Utc::now().timestamp() and the
\* checksum the truncated SHA-256 of "foo:1.0-1"
GenerateBuildinfo(now) ==
    << PkgLine("format", "2"), PkgLine("pkgname", "foo"), PkgLine("pkgbase", "foo"),
       PkgLine("pkgver", "1.0-1"), PkgLine("pkgarch", "x86_64"),
       PkgLine("pkgbuild_sha256sum", "sha256(foo:1.0-1)[..32]"),
       PkgLine("packager", "someone (converted by rexeb)"),
       PkgLine("builddate", now),
       PkgLine("builddir", "/tmp/rexeb"), PkgLine("startdir", "/tmp/rexeb"),
       PkgLine("buildtool", "rexeb"), PkgLine("buildtoolver", "0.1.0"),
       PkgLine("buildenv", "!distcc"), PkgLine("buildenv", "!ccache"),
       PkgLine("buildenv", "!check"), PkgLine("buildenv", "!sign"),
       PkgLine("options", "!strip"), PkgLine("options", "!docs"),
       PkgLine("options", "!libtool"), PkgLine("options", "!staticlibs") >>

\* PackageConverter::create_buildinfo at the time now
CreateBuildinfoIn(root, now) ==
    (".BUILDINFO" :> Entry("file", GenerateBuildinfo(now))) @@ root

\* PackageConverter::create_pkginfo
CreatePkginfoIn(root, md) == (".PKGINFO" :> Entry("file", ToPkginfo(md))) @@ root

\* PackageConverter::create_install_script: script is what
\* InstallScriptGenerator::generate returned, None or Some(text)
CreateInstallScriptIn(root, script) ==
    IF script = None THEN root
    ELSE (".INSTALL" :> Entry("file", script[1])) @@ root

\* PackageConverter::copy_data_files: every entry of data_dir is created under
\* the same relative path, replacing what is there
CopyDataFilesIn(root, data) == data @@ root

\* a line of the file manifest
MtreeLine(path, type, detail) == [path |-> path, type |-> type, detail |-> detail]

\* the first loop of create_mtree: the manifests that exist, in the order of
\* special_files
RECURSIVE SpecialLines(_, _)
SpecialLines(root, special_files) ==
    IF special_files = <<>> THEN <<>>
    ELSE (IF Head(special_files) \in DOMAIN root
          THEN <<MtreeLine(Head(special_files), "", root[Head(special_files)].content)>>
          ELSE <<>>)
         \o SpecialLines(root, Tail(special_files))

\* the second loop of create_mtree over one walk of the staging directory
RECURSIVE WalkLines(_, _)
WalkLines(root, walk) ==
    IF walk = <<>> THEN <<>>
    ELSE (IF HasManifestPrefix(Head(walk)) THEN <<>>
          ELSE <<MtreeLine(Head(walk), root[Head(walk)].type,
                           IF root[Head(walk)].type = "dir" THEN ""
                           ELSE root[Head(walk)].content)>>)
         \o WalkLines(root, Tail(walk))

\* PackageConverter::create_mtree: the staging directories it can leave, one
\* for each order the walk can take
CreateMtreeIn(root) ==
    {(".MTREE" :> Entry("file",
          <<MtreeLine("#mtree", "", ""),
            MtreeLine("/set", "", "type=file uid=0 gid=0 mode=644")>>
          \o SpecialLines(root, <<".BUILDINFO", ".PKGINFO", ".INSTALL">>)
          \o <<MtreeLine("/set", "", "mode=755")>>
          \o WalkLines(root, walk))) @@ root : walk \in Walks(root)}

\* a member of the archive
Member(root, path) == [path |-> path, type |-> root[path].type, content |-> root[path].content]

\* the first loop of add_package_files
RECURSIVE SpecialMembers(_, _)
SpecialMembers(root, special_files) ==
    IF special_files = <<>> THEN <<>>
    ELSE (IF Head(special_files) \in DOMAIN root
          THEN <<Member(root, Head(special_files))>> ELSE <<>>)
         \o SpecialMembers(root, Tail(special_files))

\* PackageConverter::add_package_files: the member lists it can write, one for
\* each order the filtered walk can take
AddPackageFiles(root) ==
    {SpecialMembers(root, <<".BUILDINFO", ".MTREE", ".PKGINFO", ".INSTALL">>)
     \o [i \in 1..Len(walk) |-> Member(root, walk[i])] :
        walk \in WalkBelow(root, "",
                     [p \in DOMAIN root |-> ~HasManifestPrefix(FileName(p))])}

\* enum OutputFormat and OutputFormat::extension
OutputFormats == {"PkgTarZst", "PkgTarXz", "PkgTarGz"}
Extension(format) ==
    CASE format = "PkgTarZst" -> "pkg.tar.zst"
      [] format = "PkgTarXz" -> "pkg.tar.xz"
      [] format = "PkgTarGz" -> "pkg.tar.gz"

\* the output_path of build, for the package foo 1.0-1 (x86_64)
OutputPath(format) == "foo-1.0-1.x86_64." \o Extension(format)

\* a file of the output directory: the members written to it so far, and
\* whether the archive was written to its end
ArchiveFile(members, finished) == [members |-> members, finished |-> finished]

\* the number of entries of the extracted payload
MaxPayload == 2

\* the entries a payload is made of
PayloadEntries ==
    ("etc" :> Entry("dir", ""))
    @@ ("usr" :> Entry("dir", "")) @@ ("usr/foo" :> Entry("file", "foo"))
    @@ ("usr/lnk" :> Entry("link", "foo"))
    @@ (".INSTALL" :> Entry("file", "payload"))
    @@ (".MTREE.bak" :> Entry("file", "bak"))
    @@ ("etc/.MTREE" :> Entry("file", "nested"))
    @@ (".PKGINFO" :> Entry("file", <<PkgLine("pkgname", "payload")>>))

\* the payload trees: a path is in a tree only with the directory it lies in
DataDirs ==
    {[p \in S |-> PayloadEntries[p]] :
        S \in {S \in SUBSET DOMAIN PayloadEntries :
                 /\ Cardinality(S) <= MaxPayload
                 /\ \A p \in S : Parent(p) = "" \/ Parent(p) \in S}}

\* the metadata of the packages built
BuildPackages ==
    {NewMetadata,
     AddDeps(NewMetadata, "Depends",
             <<SetArchName(WithVersion("libc6", "Ge", "2.34-0ubuntu3"), "glibc", 100)>>),
     AddDeps(NewMetadata, "Depends",
             <<SetArchName(NewDependency("libssl3"), "openssl", 100),
               NewDependency("awk")>>),
     AddDeps(AddDeps(NewMetadata, "Suggests", <<WithVersion("libfoo2", "Lt", "1:3.0")>>),
             "Conflicts", <<SetArchName(NewDependency("mawk"), "gawk", 80)>>)}

\* the number of seconds on the clock
MaxBuildTime == 2

\* the times, in seconds, at which a build runs
BuildTimes == 1..MaxBuildTime

\* an archive left in the output directory by an earlier build
OldArchive == ArchiveFile(<<[path |-> ".BUILDINFO", type |-> "file", content |-> "old"]>>, TRUE)

\* PackageConverter::new on an existing data_dir, before build is called
InitBuild ==
    /\ NoMapper
    /\ mappings = BuiltinMappings
    /\ arch_packages = <<>>
    /\ metadata \in BuildPackages
    /\ data_dir \in DataDirs
    /\ pkg_root = <<>>
    /\ output_dir \in {<<>>, (OutputPath("PkgTarZst") :> OldArchive)}
    /\ pc = "idle"
    /\ cur = [k |-> 0, failed |-> FALSE, again |-> FALSE]
    /\ ret = [op |-> "new"]

\* the steps of build, in order
BuildSteps ==
    <<"create_buildinfo", "create_pkginfo", "create_install_script",
      "copy_data_files", "create_mtree", "create_archive", "add_package_files">>

\* build is called: the format, and what the install-script generator will
\* return for this package
BuildCall ==
    /\ pc = "idle"
    /\ \E format \in OutputFormats :
       \E script \in {None, Some("script")} :
          cur' = [format |-> format, script |-> script, before |-> output_dir]
    /\ pc' = "create_buildinfo"
    /\ ret' = [op |-> "build", result |-> None]
    /\ UNCHANGED <<mappings, arch_packages, metadata>>
    /\ UNCHANGED mapper_vars
    /\ UNCHANGED builder_vars

CreateBuildinfo ==
    /\ pc = "create_buildinfo"
    /\ \E now \in BuildTimes : pkg_root' = CreateBuildinfoIn(pkg_root, now)
    /\ pc' = "create_pkginfo"
    /\ UNCHANGED <<mappings, arch_packages, metadata, cur, ret, data_dir, output_dir>>
    /\ UNCHANGED mapper_vars

CreatePkginfo ==
    /\ pc = "create_pkginfo"
    /\ pkg_root' = CreatePkginfoIn(pkg_root, metadata)
    /\ pc' = "create_install_script"
    /\ UNCHANGED <<mappings, arch_packages, metadata, cur, ret, data_dir, output_dir>>
    /\ UNCHANGED mapper_vars

CreateInstallScript ==
    /\ pc = "create_install_script"
    /\ pkg_root' = CreateInstallScriptIn(pkg_root, cur.script)
    /\ pc' = "copy_data_files"
    /\ UNCHANGED <<mappings, arch_packages, metadata, cur, ret, data_dir, output_dir>>
    /\ UNCHANGED mapper_vars

CopyDataFiles ==
    /\ pc = "copy_data_files"
    /\ pkg_root' = CopyDataFilesIn(pkg_root, data_dir)
    /\ pc' = "create_mtree"
    /\ UNCHANGED <<mappings, arch_packages, metadata, cur, ret, data_dir, output_dir>>
    /\ UNCHANGED mapper_vars

CreateMtree ==
    /\ pc = "create_mtree"
    /\ pkg_root' \in CreateMtreeIn(pkg_root)
    /\ pc' = "create_archive"
    /\ UNCHANGED <<mappings, arch_packages, metadata, cur, ret, data_dir, output_dir>>
    /\ UNCHANGED mapper_vars

\* create_archive up to File::create(output): the file at the output path is
\* created, or truncated if it exists
CreateArchive ==
    /\ pc = "create_archive"
    /\ output_dir' = (OutputPath(cur.format) :> ArchiveFile(<<>>, FALSE)) @@ output_dir
    /\ pc' = "add_package_files"
    /\ UNCHANGED <<mappings, arch_packages, metadata, cur, ret, data_dir, pkg_root>>
    /\ UNCHANGED mapper_vars

\* the rest of create_archive and the return of build: the members are
\* written one after the other; a write can fail after any number of them,
\* and the error is returned with the file left as it is. On return the
\* temporary directory is removed.
WriteArchive ==
    /\ pc = "add_package_files"
    /\ \E members \in AddPackageFiles(pkg_root) :
       \E n \in 0..Len(members) :
          /\ output_dir' = (OutputPath(cur.format) :>
                               ArchiveFile(SubSeq(members, 1, n), n = Len(members)))
                           @@ output_dir
          /\ ret' = [op |-> "build",
                     result |-> Some(IF n = Len(members)
                                     THEN Ok(OutputPath(cur.format))
                                     ELSE Err("Io", "add_package_files"))]
    /\ pkg_root' = <<>>
    /\ pc' = "done"
    /\ UNCHANGED <<mappings, arch_packages, metadata, cur, data_dir>>
    /\ UNCHANGED mapper_vars

\* a step up to File::create fails with an I/O error (for
\* create_install_script, also when the generator fails): build returns the
\* error and the temporary directory is removed
StepFails ==
    /\ pc \in Range(BuildSteps) \ {"add_package_files"}
    /\ ret' = [op |-> "build", result |-> Some(Err("Io", pc))]
    /\ pkg_root' = <<>>
    /\ pc' = "done"
    /\ UNCHANGED <<mappings, arch_packages, metadata, cur, data_dir, output_dir>>
    /\ UNCHANGED mapper_vars

NextBuild ==
    \/ BuildCall \/ CreateBuildinfo \/ CreatePkginfo \/ CreateInstallScript
    \/ CopyDataFiles \/ CreateMtree \/ CreateArchive \/ WriteArchive \/ StepFails

SpecBuild == InitBuild /\ [][NextBuild]_vars

-----------------------------------------------------------------------------
(* Properties of the Package Builder *)

\* the classes to_pkginfo has a field for, in the order it writes them
PkginfoFields ==
    << <<"Depends", "depend">>, <<"PreDepends", "depend">>,
       <<"Recommends", "optdepend">>, <<"Suggests", "optdepend">>,
       <<"Conflicts", "conflict">>, <<"Breaks", "conflict">>,
       <<"Replaces", "replaces">>, <<"Provides", "provides">> >>

\* the lines the claim expects: one for each mapped dependency
RECURSIVE MappedLines(_, _)
MappedLines(md, fields) ==
    IF fields = <<>> THEN <<>>
    ELSE LET mapped == SelectSeq(GetDeps(md, Head(fields)[1]), IsMapped)
         IN  [i \in 1..Len(mapped) |-> PkgLine(Head(fields)[2], ToArchString(mapped[i]))]
             \o MappedLines(md, Tail(fields))

IsDependencyLine(line) ==
    line.key \in {"depend", "optdepend", "conflict", "replaces", "provides"}

\* C17 as stated: the dependency lines of the staged .PKGINFO are those of the
\* mapped dependencies, each in the field of its class, and no others.
C17_Original ==
    (pc \in {"create_install_script", "copy_data_files"}) =>
        SelectSeq(pkg_root[".PKGINFO"].content, IsDependencyLine)
            = MappedLines(metadata, PkginfoFields)

\* the paths the entry lines of the staged .MTREE name, in order
MtreePaths ==
    LET IsEntryLine(line) == line.path \notin {"#mtree", "/set"}
        lines == SelectSeq(pkg_root[".MTREE"].content, IsEntryLine)
    IN  [i \in 1..Len(lines) |-> lines[i].path]

\* C18 as stated: once create_mtree has run, every staged entry other than
\* .MTREE has exactly one line, no line names .MTREE, and no line of a
\* payload entry comes before the line of a generated manifest.
C18_Original ==
    pc = "create_archive" =>
        /\ \A p \in DOMAIN pkg_root \ {".MTREE"} :
              Cardinality({i \in 1..Len(MtreePaths) : MtreePaths[i] = p}) = 1
        /\ ".MTREE" \notin Range(MtreePaths)
        /\ \A i, j \in 1..Len(MtreePaths) :
              (MtreePaths[j] \in {".BUILDINFO", ".PKGINFO", ".INSTALL"}
                  /\ MtreePaths[i] \notin {".BUILDINFO", ".PKGINFO", ".INSTALL"}) => j < i

\* build has returned Ok
BuildSucceeded == pc = "done" /\ ret.result # None /\ ret.result[1].ok

\* the member paths of the archive build has written
MemberPaths ==
    LET members == output_dir[OutputPath(cur.format)].members
    IN  [i \in 1..Len(members) |-> members[i].path]

\* C19 as stated: the archive of a successful build holds .BUILDINFO, .MTREE,
\* .PKGINFO, then .INSTALL exactly when a hook script was generated, then the
\* payload in one of its traversal orders.
C19_Original ==
    BuildSucceeded =>
        \E walk \in Walks(data_dir) :
            MemberPaths = <<".BUILDINFO", ".MTREE", ".PKGINFO">>
                          \o (IF cur.script # None THEN <<".INSTALL">> ELSE <<>>)
                          \o walk

\* C20 as stated: from the call of build on, every file of the output
\* directory is either as it was before the call or a completely written
\* archive, and after a failed build the directory is as it was.
C20_Original ==
    (pc \in Range(BuildSteps) \cup {"done"}) =>
        /\ \A n \in DOMAIN output_dir :
              \/ n \in DOMAIN cur.before /\ output_dir[n] = cur.before[n]
              \/ output_dir[n].finished
        /\ (ret.result # None /\ ~ret.result[1].ok) => output_dir = cur.before

-----------------------------------------------------------------------------
C23_Original ==
    (ret.op = "handle_java_conflicts"
        /\ ~ret.config.add_java_conflicts
        /\ ret.config.conflict_strategy \in FiveStrategies
        /\ HasBothFamilies(ret.before)) =>
            \A t \in DOMAIN ret.before :
                LET Kept(d) == ~NonPreferred(ret.config.conflict_strategy, d)
                IN  metadata[t] = SelectSeq(ret.before[t], Kept)

(* Properties of the mapper's fallback and of its default rules *)
\* the name with its library prefix and its trailing digits stripped
StripLibraryName(name) ==
    StripTrailingDigits(IF StartsWith(name, "lib") THEN SubSeq(name, 4, Len(name))
                        ELSE name)

\* C26 as stated: when no rule matches, suggest_arch_name returns a name
\* without debian or ubuntu in it and without the library prefix lowercased
\* at confidence 0.5, and every other name with its library prefix and its
\* trailing digits stripped at confidence 0.55.
C26_Original ==
    (ret.op = "suggest_arch_name" /\ MatchingRules(ret.name) = {}) =>
        LET name_lower == ToLowercase(ret.name)
        IN  ret.result =
                IF /\ ~Contains(name_lower, "debian")
                   /\ ~Contains(name_lower, "ubuntu")
                   /\ ~StartsWith(name_lower, "lib")
                THEN Some(<<name_lower, 50>>)
                ELSE Some(<<StripLibraryName(name_lower), 55>>)

\* C27 as stated: on a mapper with only the default rules, apply_rules maps
\* a name made of libllvm and digits to llvm-libs at confidence 0.9.
C27_Original ==
    (ret.op = "apply_rules" /\ ret.name = "libllvm14" /\ rules = DefaultRules) =>
        ret.result = Some(<<"llvm-libs", 90>>)

(* Properties of the manifests and of the archive *)
\* C28 as stated: the .BUILDINFO text is the same whatever the time of the
\* build: it is the text generate_buildinfo gives at every time.
C28_Original ==
    pc = "create_pkginfo" =>
        \A now \in BuildTimes :
            pkg_root[".BUILDINFO"].content = GenerateBuildinfo(now)

\* the member of the written archive with this path
MemberAt(path) ==
    LET members == output_dir[OutputPath(cur.format)].members
    IN  members[CHOOSE i \in 1..Len(members) : members[i].path = path]

\* the payload paths the .MTREE member of the written archive lists
ListedPayload ==
    {line.path : line \in Range(MemberAt(".MTREE").content)} \cap DOMAIN data_dir

\* the payload paths the written archive has a member for
ArchivedPayload == Range(MemberPaths) \cap DOMAIN data_dir

\* C29 as stated: after a successful build the payload paths listed in
\* .MTREE are the payload paths that are members of the archive.
C29_Original == BuildSucceeded => ListedPayload = ArchivedPayload

\* C30 as stated: after a successful build the .BUILDINFO and .PKGINFO
\* members carry the text generated from the metadata, and there is an
\* .INSTALL member only if the install-script generator returned a script.
C30_Original ==
    BuildSucceeded =>
        /\ MemberAt(".BUILDINFO").content \in {GenerateBuildinfo(now) : now \in BuildTimes}
        /\ MemberAt(".PKGINFO").content = ToPkginfo(metadata)
        /\ ".INSTALL" \in Range(MemberPaths) => cur.script # None

-----------------------------------------------------------------------------
(* Batch conversion: execute_convert and convert_single_package of
   src/src/cli/commands.rs. pc is the position of execute_convert, cur holds
   the arguments, the tasks and the handle awaited, output_dir the files of
   the output directory with the tasks that wrote each. *)

\* the number of input packages of a batch
MaxTasks == 2

\* the input files: packages that parse, named by their package name, and a
\* file DebParser rejects
InputPackages == {"foo", "bar", "broken"}

\* ConvertArgs: input, name, skip_deps and pkgbuild, with the default format
ConvertArgs ==
    {[input |-> input, name |-> name, skip_deps |-> skip_deps, pkgbuild |-> pkgbuild] :
        input \in UNION {[1..n -> InputPackages] : n \in 1..MaxTasks},
        name \in {None, Some("baz")},
        skip_deps \in BOOLEAN, pkgbuild \in BOOLEAN}

\* a task of the batch: its position in convert_single_package, the
\* effective name of its metadata, and its result once it has one
Task(position, name, result) == [pc |-> position, name |-> name, result |-> result]

Tasks == DOMAIN cur.task

\* execute_convert is called
InitBatch ==
    /\ NoMapper
    /\ mappings = BuiltinMappings
    /\ arch_packages = <<>>
    /\ metadata = NewMetadata
    /\ data_dir = <<>>
    /\ pkg_root = <<>>
    /\ output_dir = <<>>
    /\ pc = "spawn"
    /\ \E args \in ConvertArgs :
          cur = [args |-> args, awaited |-> 1,
                 task |-> [i \in 1..Len(args.input) |-> Task("unspawned", "", None)]]
    /\ ret = [op |-> "execute_convert", result |-> None]

BatchUnchanged ==
    /\ UNCHANGED <<mappings, arch_packages, metadata, data_dir, pkg_root>>
    /\ UNCHANGED mapper_vars

\* one iteration of the loop over args.input: tokio::spawn of the next task
SpawnTask ==
    /\ pc = "spawn"
    /\ \E i \in Tasks :
          /\ cur.task[i].pc = "unspawned"
          /\ \A j \in Tasks : j < i => cur.task[j].pc # "unspawned"
          /\ cur' = [cur EXCEPT !.task[i].pc = "spawned"]
          /\ pc' = IF i = Len(cur.args.input) THEN "await" ELSE "spawn"
    /\ UNCHANGED <<ret, output_dir>>
    /\ BatchUnchanged

\* convert_single_package up to normalize_version: the file is parsed and
\* the overrides are applied to the task's own metadata
ParsePackage(i) ==
    /\ pc # "exited"
    /\ cur.task[i].pc = "spawned"
    /\ cur' = [cur EXCEPT !.task[i] =
                  IF cur.args.input[i] = "broken"
                  THEN Task("done", "", Some(Err("Parse", cur.args.input[i])))
                  ELSE Task(IF cur.args.skip_deps THEN "write" ELSE "resolve",
                            IF cur.args.name # None THEN cur.args.name[1]
                            ELSE cur.args.input[i],
                            None)]
    /\ UNCHANGED <<pc, ret, output_dir>>
    /\ BatchUnchanged

\* DependencyResolver::new and resolve on the task's own resolver: Ok, or
\* the error of the database or of resolve_single
ResolveDependencies(i) ==
    /\ pc # "exited"
    /\ cur.task[i].pc = "resolve"
    /\ \E ok \in BOOLEAN :
          cur' = [cur EXCEPT !.task[i] =
                     IF ok THEN Task("write", @.name, None)
                     ELSE Task("done", @.name, Some(Err("Resolve", @.name)))]
    /\ UNCHANGED <<pc, ret, output_dir>>
    /\ BatchUnchanged

\* the path the task writes: PKGBUILD in PKGBUILD mode, the output_path of
\* build otherwise
OutputFile(args, name) ==
    IF args.pkgbuild THEN "PKGBUILD"
    ELSE name \o "-1.0-1.x86_64." \o Extension("PkgTarZst")

\* a file of the output directory: what it holds, who wrote it last and
\* every task that wrote it
WrittenFile(content, old, i) ==
    [content |-> content, writers |-> old \cup {i}]

\* the last part of convert_single_package: std::fs::write of the PKGBUILD
\* text, or PackageConverter::new and build; the write is made or fails
WriteOutput(i) ==
    /\ pc # "exited"
    /\ cur.task[i].pc = "write"
    /\ \E ok \in BOOLEAN :
       \E path \in {OutputFile(cur.args, cur.task[i].name)} :
          IF ok
          THEN /\ output_dir' =
                     (path :> WrittenFile(<<cur.task[i].name, cur.args.input[i]>>,
                                  IF path \in DOMAIN output_dir
                                  THEN output_dir[path].writers ELSE {}, i))
                     @@ output_dir
               /\ cur' = [cur EXCEPT !.task[i] = Task("done", @.name, Some(Ok(path)))]
          ELSE /\ output_dir' = output_dir
               /\ cur' = [cur EXCEPT !.task[i] =
                             Task("done", @.name, Some(Err("Io", path)))]
    /\ UNCHANGED <<pc, ret>>
    /\ BatchUnchanged

\* one iteration of the loop over handles: handle.await on a finished task
\* and the two `?` on its result
AwaitHandle ==
    /\ pc = "await"
    /\ cur.task[cur.awaited].pc = "done"
    /\ IF cur.task[cur.awaited].result[1].ok
       THEN IF cur.awaited = Len(cur.args.input)
            THEN /\ pc' = "returned"
                 /\ ret' = [ret EXCEPT !.result = Some(Ok(<<>>))]
                 /\ cur' = cur
            ELSE /\ pc' = "await"
                 /\ ret' = ret
                 /\ cur' = [cur EXCEPT !.awaited = @ + 1]
       ELSE /\ pc' = "returned"
            /\ ret' = [ret EXCEPT !.result = Some(cur.task[cur.awaited].result[1])]
            /\ cur' = cur
    /\ UNCHANGED output_dir
    /\ BatchUnchanged

\* main returns after execute_convert: the runtime is dropped and the tasks
\* that have not finished are cancelled
Exit ==
    /\ pc = "returned"
    /\ pc' = "exited"
    /\ cur' = [cur EXCEPT !.task =
                  [i \in Tasks |-> IF cur.task[i].pc = "done" THEN cur.task[i]
                                   ELSE Task("cancelled", cur.task[i].name, None)]]
    /\ UNCHANGED <<ret, output_dir>>
    /\ BatchUnchanged

\* the steps of the tasks, whichever task makes them
ParseStep == \E i \in Tasks : ParsePackage(i)
ResolveDependenciesStep == \E i \in Tasks : ResolveDependencies(i)
WriteOutputStep == \E i \in Tasks : WriteOutput(i)

NextBatch ==
    \/ SpawnTask
    \/ ParseStep
    \/ ResolveDependenciesStep
    \/ WriteOutputStep
    \/ AwaitHandle
    \/ Exit

\* the steps of one task and those of execute_convert
TaskStep(i) == ParsePackage(i) \/ ResolveDependencies(i) \/ WriteOutput(i)
MainStep == SpawnTask \/ AwaitHandle \/ Exit

SpecBatch == InitBatch /\ [][NextBatch]_vars

\* the scheduling of the runtime: execute_convert and every spawned task
\* are polled as long as they can make a step
SpecBatchFair ==
    /\ SpecBatch
    /\ WF_vars(MainStep)
    /\ \A i \in 1..MaxTasks : WF_vars(i \in Tasks /\ TaskStep(i))

(* Properties of the batch conversion *)
\* C21 as stated: when execute_convert returns, every task of the batch has
\* run to completion, with its output or its own error.
C21_Original ==
    pc = "returned" => \A i \in Tasks : cur.task[i].pc = "done"

\* C22 as stated: no two tasks of a batch write the same file.
C22_Original ==
    pc \in {"spawn", "await", "returned", "exited"} =>
        \A path \in DOMAIN output_dir : Cardinality(output_dir[path].writers) <= 1

====
